---- MODULE Spec2Model ----
(***************************************************************************)
(* Workflow store (workflow_manager.py), trigger/action model              *)
(* (workflow_models.py) and scheduler adapter (scheduler.py) of the        *)
(* python backend.                                                         *)
(*                                                                         *)
(* Documents (Python dicts) are records whose DOMAIN is the set of keys    *)
(* present.  Strings that the code tokenises (cron expressions) are        *)
(* sequences of one-character strings; every other string is atomic.       *)
(***************************************************************************)
EXTENDS Naturals, Sequences, FiniteSets, TLC

VARIABLES
    pc,          \* position of the main thread: boot, idle, save, writing, sched
    workflows,   \* WorkflowManager.workflows: the dict's values in insertion order
    file,        \* the persisted file: [state, docs]
    jobs,        \* the APScheduler job table: set of [id, cron, workflow]
    inflight,    \* the running executions of execute_workflow_action
    cur,         \* the mutation in progress
    lastRet,     \* what the latest completed call returned
    wrote,       \* outcome of the latest _save_workflows: none, ok, failed
    cancelled,   \* ids deleted or disabled by a returned call of this process
    ncmd,        \* commands processed so far
    lastError    \* what the latest logged error is about: the id of an execution
                 \* that raised, "save" for a write of the file that raised, ""
                 \* if no error was logged

vars == <<pc, workflows, file, jobs, inflight, cur, lastRet, wrote,
          cancelled, ncmd, lastError>>

---------------------------------------------------------------------------
(* Bounds *)

MaxCmds == 2

\* length of the longest cron string validation is tried on (7 fields need 13)
MaxCronLen == 13

\* number of entries of the longest persisted list that is loaded
MaxFileLen == 3

\* number of calls made on the scheduler alone
MaxSchedCalls == 3

\* number of due runs the scheduler thread gets to
MaxRuns == 2

\* number of calls of shutdown_scheduler
MaxShutdowns == 2

---------------------------------------------------------------------------
(* Strings the code splits *)

Str_0_8 == <<"0", " ", "8", " ", "*", " ", "*", " ", "*">>

Str_0_9 == <<"0", " ", "9", " ", "*", " ", "*", " ", "*">>

Str_0_0_8 == <<"0", " ", "0", " ", "8", " ", "*", " ", "*", " ", "*">>


Str_0_8_4 == <<"0", " ", "8", " ", "*", " ", "*">>

\* "0\t8 * * *": the first two fields put apart by a tab
Str_0_tab_8 == <<"0", "\t", "8", " ", "*", " ", "*", " ", "*">>

\* The characters str.split() and str.strip() take for whitespace, as far as a
\* string of the model can hold them (the characters up to U+00FF): blank,
\* \t \n \r \f, and U+000B, U+001C..U+001F, U+0085, U+00A0 written as they are
Whitespace ==
    {" ", "\t", "\n", "\r", "\f", "", "", "", "", "", "", " "}

RECURSIVE SplitFrom(_, _, _, _)
SplitFrom(s, i, tok, acc) ==
    IF i > Len(s)
    THEN IF tok = << >> THEN acc ELSE Append(acc, tok)
    ELSE IF s[i] \in Whitespace
         THEN SplitFrom(s, i + 1, << >>, IF tok = << >> THEN acc ELSE Append(acc, tok))
         ELSE SplitFrom(s, i + 1, Append(tok, s[i]), acc)

\* str.split(): the maximal runs of non-whitespace characters
split(s) == SplitFrom(s, 1, << >>, << >>)

---------------------------------------------------------------------------
(* workflow_models.py *)

TargetConnectorType == {"TargetConnectorType.BROWSER", "TargetConnectorType.GMAIL"}

\* Enum member -> its value, as json.dump writes a str-Enum
EnumValue(m) ==
    IF m = "TargetConnectorType.BROWSER" THEN "browser" ELSE "gmail"

\* TargetConnectorType(value); pydantic also accepts a member as it is
EnumMember(v) ==
    IF v \in TargetConnectorType THEN v
    ELSE IF v = "browser" THEN "TargetConnectorType.BROWSER"
    ELSE "TargetConnectorType.GMAIL"

IsConnector_any_string(v) == TRUE

\* target_connector: TargetConnectorType accepts a member or the value of one
IsConnector(v) == v \in TargetConnectorType \cup {"browser", "gmail"}

EmptyMap == [k \in {} |-> k]

\* Values of a config map that are not strings are written as tagged atoms
PyNone == "<None>"

PyInt == "<int 7>"

PyZero == "<int 0>"

PyFalse == "<False>"

PyEmptyList == "<[]>"

PyEmptyDict == "<{}>"

NonStr == {PyNone, PyInt, PyZero, PyFalse, PyEmptyList, PyEmptyDict}

\* the values an `if x:` takes for false
Falsy == {"", PyNone, PyZero, PyFalse, PyEmptyList, PyEmptyDict}

\* isinstance(x, str) and x.strip() != "": a string with a character that is
\* not whitespace
IsNonBlankStr(x) ==
    /\ x \notin NonStr
    /\ \E i \in 1..Len(x) : SubSeq(x, i, i) \notin Whitespace

\* a required_tools_mcps value [is_list, items]: a list whose items are all str
IsStrList(x) == x.is_list /\ \A i \in 1..Len(x.items) : x.items[i] \notin NonStr

check_config_known_types_only(trigger_type, v) ==
    IF trigger_type = "cron"
    THEN /\ "cron_expression" \in DOMAIN v
         /\ Len(split(v.cron_expression)) >= 5
         /\ Len(split(v.cron_expression)) <= 6
    ELSE IF trigger_type = "event"
    THEN "event_source" \in DOMAIN v /\ "event_type" \in DOMAIN v
    ELSE IF trigger_type = "semantic_condition"
    THEN /\ "condition_description" \in DOMAIN v
         /\ IsNonBlankStr(v.condition_description)
         /\ "check_interval_cron" \in DOMAIN v
         /\ Len(split(v.check_interval_cron)) >= 5
         /\ Len(split(v.check_interval_cron)) <= 6
    ELSE FALSE

check_config_presence_only(trigger_type, v) ==
    IF trigger_type = "cron" THEN "cron_expression" \in DOMAIN v
    ELSE IF trigger_type = "event" THEN {"event_source", "event_type"} \subseteq DOMAIN v
    ELSE IF trigger_type = "semantic_condition"
    THEN {"condition_description", "check_interval_cron"} \subseteq DOMAIN v
    ELSE TRUE

check_config_min_fields_only(trigger_type, v) ==
    IF trigger_type = "" THEN TRUE
    ELSE IF trigger_type = "cron"
    THEN /\ "cron_expression" \in DOMAIN v
         /\ Len(split(v.cron_expression)) >= 5
    ELSE IF trigger_type = "event"
    THEN "event_source" \in DOMAIN v /\ "event_type" \in DOMAIN v
    ELSE IF trigger_type = "semantic_condition"
    THEN /\ "condition_description" \in DOMAIN v
         /\ IsNonBlankStr(v.condition_description)
         /\ "check_interval_cron" \in DOMAIN v
         /\ Len(split(v.check_interval_cron)) >= 5
         /\ ("required_tools_mcps" \in DOMAIN v => IsStrList(v.required_tools_mcps))
    ELSE TRUE

check_config_event_either_key(trigger_type, v) ==
    IF trigger_type = "" THEN TRUE
    ELSE IF trigger_type = "cron"
    THEN /\ "cron_expression" \in DOMAIN v
         /\ Len(split(v.cron_expression)) >= 5
         /\ Len(split(v.cron_expression)) <= 6
    ELSE IF trigger_type = "event"
    THEN "event_source" \in DOMAIN v \/ "event_type" \in DOMAIN v
    ELSE IF trigger_type = "semantic_condition"
    THEN /\ "condition_description" \in DOMAIN v
         /\ IsNonBlankStr(v.condition_description)
         /\ "check_interval_cron" \in DOMAIN v
         /\ Len(split(v.check_interval_cron)) >= 5
         /\ Len(split(v.check_interval_cron)) <= 6
         /\ ("required_tools_mcps" \in DOMAIN v => IsStrList(v.required_tools_mcps))
    ELSE TRUE

\* Trigger.check_config_for_trigger_type: TRUE iff the validator raises nothing
check_config_for_trigger_type(trigger_type, v) ==
    IF trigger_type = "" THEN TRUE
    ELSE IF trigger_type = "cron"
    THEN /\ "cron_expression" \in DOMAIN v
         /\ Len(split(v.cron_expression)) >= 5
         /\ Len(split(v.cron_expression)) <= 6
    ELSE IF trigger_type = "event"
    THEN "event_source" \in DOMAIN v /\ "event_type" \in DOMAIN v
    ELSE IF trigger_type = "semantic_condition"
    THEN /\ "condition_description" \in DOMAIN v
         /\ IsNonBlankStr(v.condition_description)
         /\ "check_interval_cron" \in DOMAIN v
         /\ Len(split(v.check_interval_cron)) >= 5
         /\ Len(split(v.check_interval_cron)) <= 6
         /\ ("required_tools_mcps" \in DOMAIN v => IsStrList(v.required_tools_mcps))
    ELSE TRUE

\* Trigger: both fields required, then the config validator
ValidTrigger(t) ==
    /\ "trigger_type" \in DOMAIN t
    /\ "config" \in DOMAIN t
    /\ check_config_for_trigger_type(t.trigger_type, t.config)

ValidAction_known_types(a) ==
    /\ "action_type" \in DOMAIN a
    /\ a.action_type \in {"navigate", "scrape_element", "read_email", "send_email",
                          "list_emails"}

\* BaseAction: action_type required, params defaults to {}
ValidAction(a) == "action_type" \in DOMAIN a

\* Workflow.model_validate succeeds on document d
ValidWorkflow(d) ==
    /\ {"id", "name", "trigger", "target_connector", "action"} \subseteq DOMAIN d
    /\ ValidTrigger(d.trigger)
    /\ IsConnector(d.target_connector)
    /\ ValidAction(d.action)

\* Workflow.model_validate(d) for a document that validates
model_validate(d) ==
    [id               |-> d.id,
     name             |-> d.name,
     trigger          |-> [trigger_type |-> d.trigger.trigger_type,
                           config       |-> d.trigger.config],
     target_connector |-> EnumMember(d.target_connector),
     action           |-> [action_type |-> d.action.action_type,
                           params      |-> IF "params" \in DOMAIN d.action
                                           THEN d.action.params ELSE EmptyMap],
     is_enabled       |-> IF "is_enabled" \in DOMAIN d THEN d.is_enabled ELSE TRUE]

model_dump_drops_enabled(w) ==
    [k \in DOMAIN w \ {"is_enabled"} |-> w[k]]

\* Workflow.model_dump(): the dict of all six fields (the connector stays a member)
model_dump(w) ==
    [k \in DOMAIN w |-> w[k]]

\* json.dump of one dumped workflow: the Enum member is written as its value
json_dump(d) ==
    [k \in DOMAIN d |-> IF k = "target_connector" THEN EnumValue(d[k]) ELSE d[k]]

---------------------------------------------------------------------------
(* apscheduler.triggers.cron.CronTrigger.from_crontab, as scheduler.py calls it *)

DigitVal(c) ==
    CASE c = "0" -> 0 [] c = "1" -> 1 [] c = "2" -> 2 [] c = "3" -> 3 [] c = "4" -> 4
      [] c = "5" -> 5 [] c = "6" -> 6 [] c = "7" -> 7 [] c = "8" -> 8 [] OTHER -> 9

RECURSIVE NumVal(_, _)
NumVal(tok, n) ==
    IF n = 0 THEN 0 ELSE 10 * NumVal(tok, n - 1) + DigitVal(tok[n])

\* minute, hour, day, month, day_of_week
FieldMin == <<0, 0, 1, 1, 0>>

FieldMax == <<59, 23, 31, 12, 6>>

\* one field compiles: "*" or a number within the field's range
FieldCompiles(tok, pos) ==
    \/ tok = <<"*">>
    \/ /\ \A i \in 1..Len(tok) : tok[i] \in {"0", "1", "2", "3", "4", "5", "6", "7", "8", "9"}
       /\ NumVal(tok, Len(tok)) >= FieldMin[pos]
       /\ NumVal(tok, Len(tok)) <= FieldMax[pos]

\* CronTrigger.from_crontab(expr) raises nothing: exactly five fields, each compiling
from_crontab(expr) ==
    LET values == split(expr)
    IN  /\ Len(values) = 5
        /\ \A p \in 1..5 : FieldCompiles(values[p], p)

---------------------------------------------------------------------------
(* scheduler.py *)

NoCall == [fn |-> "none"]

\* execute_workflow_action: the call it makes to the action executor, if any
execute_workflow_action(workflow) ==
    [id       |-> workflow.id,
     workflow |-> workflow,
     call     |->
        IF workflow.target_connector = "TargetConnectorType.BROWSER"
        THEN IF workflow.action.action_type = "navigate"
             THEN IF /\ "url" \in DOMAIN workflow.action.params
                     /\ workflow.action.params.url \notin Falsy
                  THEN [fn |-> "perform_navigation", url |-> workflow.action.params.url]
                  ELSE NoCall
             ELSE NoCall
        ELSE NoCall]

JobIds(table) == {j.id : j \in table}

remove_job_noop(table, workflow_id) == table

\* remove_job: the job leaves the table; JobLookupError is swallowed
remove_job(table, workflow_id) ==
    {j \in table : j.id # workflow_id}

misfire_grace_time == 300

add_job_keeps_existing(table, workflow) ==
    table \cup {[id |-> workflow.id,
                 cron |-> workflow.trigger.config.cron_expression,
                 workflow |-> workflow,
                 misfire_grace_time |-> misfire_grace_time]}

\* the job as it is without the misfire_grace_time argument (one second)
add_job_default_grace(table, workflow) ==
    {j \in table : j.id # workflow.id}
        \cup {[id |-> workflow.id,
               cron |-> workflow.trigger.config.cron_expression,
               workflow |-> workflow,
               misfire_grace_time |-> 1]}

\* scheduler.add_job(..., id=workflow.id, replace_existing=True,
\* misfire_grace_time=300)
add_job(table, workflow) ==
    {j \in table : j.id # workflow.id}
        \cup {[id |-> workflow.id,
               cron |-> workflow.trigger.config.cron_expression,
               workflow |-> workflow,
               misfire_grace_time |-> misfire_grace_time]}

add_or_update_job_leaves_other_types(table, workflow) ==
    IF ~workflow.is_enabled
    THEN remove_job(table, workflow.id)
    ELSE IF workflow.trigger.trigger_type = "cron"
    THEN IF from_crontab(workflow.trigger.config.cron_expression)
         THEN add_job(table, workflow)
         ELSE table
    ELSE table

\* add_or_update_job: the job table it leaves
add_or_update_job(table, workflow) ==
    IF ~workflow.is_enabled
    THEN remove_job(table, workflow.id)
    ELSE IF workflow.trigger.trigger_type = "cron"
    THEN IF \/ "cron_expression" \notin DOMAIN workflow.trigger.config
            \/ workflow.trigger.config.cron_expression = << >>
         THEN remove_job(table, workflow.id)
         ELSE IF from_crontab(workflow.trigger.config.cron_expression)
              THEN add_job(table, workflow)
              ELSE table       \* the exception is logged, the table is untouched
    ELSE remove_job(table, workflow.id)

---------------------------------------------------------------------------
(* workflow_manager.py: the collection and the file *)

Ids(wfs) == {wfs[i].id : i \in 1..Len(wfs)}

IndexOf(wfs, id) == CHOOSE i \in 1..Len(wfs) : wfs[i].id = id

\* self.workflows.get(workflow_id), for an id that is present
get_workflow(wfs, id) == wfs[IndexOf(wfs, id)]

DictSet_appends(wfs, w) == Append(wfs, w)

DictSet_moves_to_end(wfs, w) ==
    Append(SelectSeq(wfs, LAMBDA x : x.id # w.id), w)

\* self.workflows[w.id] = w: a present key keeps its position, a new key goes last
DictSet(wfs, w) ==
    IF w.id \in Ids(wfs)
    THEN [wfs EXCEPT ![IndexOf(wfs, w.id)] = w]
    ELSE Append(wfs, w)

\* del self.workflows[id]
DictDel(wfs, id) ==
    LET k == IndexOf(wfs, id)
    IN  [i \in 1..(Len(wfs) - 1) |-> IF i < k THEN wfs[i] ELSE wfs[i + 1]]

MissingFile == [state |-> "missing", docs |-> << >>]

\* the file while it is open for writing: what has reached it is no JSON document
PartialFile(docs) == [state |-> "partial", docs |-> docs]

\* what _save_workflows writes: the dump of every workflow, in dict order
SavedFile(wfs) ==
    [state |-> "ok",
     docs  |-> [i \in 1..Len(wfs) |-> json_dump(model_dump(wfs[i]))]]

\* a file that holds a JSON document whose top-level value is no list; docs is
\* what it holds instead
NotListFile(docs) == [state |-> "notlist", docs |-> docs]

\* an entry of the persisted list that is no JSON object: a string, null, ...
NotObject(kind) == [py |-> kind]

IsDict(d) == "py" \notin DOMAIN d

\* the loop of _load_workflows from entry i on.  An entry that fails validation
\* is logged with workflow_data.get('id', ...): a dict is skipped; on anything
\* else .get raises AttributeError out of the handler and of the loop, and the
\* outer handler ends the load with what was loaded so far.
RECURSIVE LoadFrom(_, _, _)
LoadFrom(docs, i, acc) ==
    IF i > Len(docs) THEN acc
    ELSE IF ValidWorkflow(docs[i])
         THEN LoadFrom(docs, i + 1, DictSet(acc, model_validate(docs[i])))
         ELSE IF IsDict(docs[i])
              THEN LoadFrom(docs, i + 1, acc)
              ELSE acc

Load_whatever_is_there(f) == LoadFrom(f.docs, 1, << >>)

\* _load_workflows into an empty dict: a missing file, an undecodable file and a
\* document that is no list load nothing
Load(f) ==
    IF f.state = "ok" THEN LoadFrom(f.docs, 1, << >>) ELSE << >>

RECURSIVE InitJobsFrom(_, _, _)
InitJobsFrom(wfs, i, table) ==
    IF i > Len(wfs) THEN table
    ELSE IF wfs[i].is_enabled /\ wfs[i].trigger.trigger_type = "cron"
         THEN InitJobsFrom(wfs, i + 1, add_or_update_job(table, wfs[i]))
         ELSE InitJobsFrom(wfs, i + 1, table)

\* _initialize_scheduler_jobs on the scheduler of a fresh process
initialize_scheduler_jobs(wfs) == InitJobsFrom(wfs, 1, {})

\* update_workflow's merge: every key of the update replaces the dumped value,
\* then id is forced back
MergeUpdate_keeps_update_id(existing, upd, workflow_id) ==
    LET dumped == model_dump(existing)
    IN  [k \in DOMAIN dumped \cup DOMAIN upd |->
            IF k \in DOMAIN upd THEN upd[k] ELSE dumped[k]]

MergeUpdate_existing_wins(existing, upd, workflow_id) ==
    LET dumped == model_dump(existing)
        merged == [k \in DOMAIN dumped \cup DOMAIN upd |->
                      IF k \in DOMAIN dumped THEN dumped[k] ELSE upd[k]]
    IN  [merged EXCEPT !.id = workflow_id]

\* update_workflow: updated_data = existing.model_dump(), then every key of
\* the update written over it, then the id forced
MergeUpdate(existing, upd, workflow_id) ==
    LET dumped == model_dump(existing)
        merged == [k \in DOMAIN dumped \cup DOMAIN upd |->
                      IF k \in DOMAIN upd THEN upd[k] ELSE dumped[k]]
    IN  [merged EXCEPT !.id = workflow_id]

EnabledCronIds(wfs) ==
    {wfs[i].id : i \in {k \in 1..Len(wfs) :
                          wfs[k].is_enabled /\ wfs[k].trigger.trigger_type = "cron"}}

---------------------------------------------------------------------------
(* Inputs *)

Url == "https://example.com"

TrigCron(expr) == [trigger_type |-> "cron", config |-> [cron_expression |-> expr]]

TrigEvent ==
    [trigger_type |-> "event",
     config |-> [event_source |-> "manual", event_type |-> "button_click"]]

TrigNoConfig == [trigger_type |-> "cron"]

\* workflow_manager.py __main__, sample_workflow_data_1
DocDaily ==
    [name |-> "Daily Site Check", trigger |-> TrigCron(Str_0_8),
     target_connector |-> "browser",
     action |-> [action_type |-> "navigate", params |-> [url |-> Url]],
     is_enabled |-> TRUE]

\* workflow_manager.py __main__, sample_workflow_data_2 (without its id)
DocMail ==
    [name |-> "Gmail Email Lister", trigger |-> TrigEvent,
     target_connector |-> "gmail",
     action |-> [action_type |-> "list_emails", params |-> [count |-> 7]]]

\* workflow_manager.py __main__, invalid_workflow_data
DocInvalid ==
    [name |-> "Invalid Workflow", trigger |-> TrigNoConfig,
     target_connector |-> "unknown_connector",
     action |-> [action_type |-> "unknown_action"]]

WithId(d, id) == [k \in DOMAIN d \cup {"id"} |-> IF k = "id" THEN id ELSE d[k]]

ExplicitIds == {"a"}

\* the values uuid.uuid4() can return
UuidPool == {"u1"}

AllIds == {"a", "b"} \cup UuidPool

AddDocs == {DocDaily, DocMail, DocInvalid}

AddInputs == AddDocs \cup {WithId(d, i) : d \in AddDocs, i \in ExplicitIds}

UpdateDocs ==
    {[name |-> "X"],
     [is_enabled |-> FALSE],
     [is_enabled |-> TRUE],
     [trigger |-> TrigCron(Str_0_9)],
     [trigger |-> TrigCron(Str_0_0_8)],
     [trigger |-> TrigCron(<<"x", " ", "8", " ", "*", " ", "*", " ", "*">>)],
     [trigger |-> TrigCron(Str_0_8_4)],
     [trigger |-> TrigNoConfig],
     [id |-> "b", name |-> "X"],
     WithId(DocMail, "b"),
     [action |-> [action_type |-> "navigate"]]}

\* a file with one enabled and one disabled cron workflow
ExampleFile ==
    [state |-> "ok",
     docs  |-> << WithId(DocDaily, "a"),
                  WithId([DocDaily EXCEPT !.is_enabled = FALSE], "b") >>]

InitFiles == {MissingFile, ExampleFile}

---------------------------------------------------------------------------
(* State machine *)

NoOp == [op |-> "none"]

NoRet == [op |-> "none", ok |-> FALSE, id |-> "", why |-> ""]

Init ==
    /\ pc = "boot"
    /\ workflows = << >>
    /\ file \in InitFiles
    /\ jobs = {}
    /\ inflight = {}
    /\ cur = NoOp
    /\ lastRet = NoRet
    /\ wrote = "none"
    /\ cancelled = {}
    /\ ncmd = 0
    /\ lastError = ""

Startup_rewrites_file ==
    /\ pc = "boot"
    /\ workflows' = Load(file)
    /\ cur' = [op |-> "seed", next |-> 1]
    /\ pc' = "seed"
    /\ file' = IF file.state = "missing" THEN file ELSE SavedFile(Load(file))
    /\ UNCHANGED <<jobs, inflight, lastRet, wrote, cancelled, ncmd, lastError>>

\* WorkflowManager.__init__ in main(), first part: _load_workflows.  The
\* scheduler of the process runs since scheduler.py was imported, with no job.
\* cur.next is the place in the collection _initialize_scheduler_jobs has come to.
Startup ==
    /\ pc = "boot"
    /\ workflows' = Load(file)
    /\ cur' = [op |-> "seed", next |-> 1]
    /\ pc' = "seed"
    /\ UNCHANGED <<file, jobs, inflight, lastRet, wrote, cancelled, ncmd, lastError>>

\* _initialize_scheduler_jobs, one turn of its loop: the next workflow is
\* handed to add_or_update_job if it is enabled and cron-triggered.  The
\* scheduler thread can run a job registered by an earlier turn before this one.
SeedJob ==
    /\ pc = "seed"
    /\ cur.next <= Len(workflows)
    /\ jobs' = IF /\ workflows[cur.next].is_enabled
                  /\ workflows[cur.next].trigger.trigger_type = "cron"
               THEN add_or_update_job(jobs, workflows[cur.next])
               ELSE jobs
    /\ cur' = [cur EXCEPT !.next = cur.next + 1]
    /\ UNCHANGED <<pc, workflows, file, inflight, lastRet, wrote, cancelled, ncmd,
                   lastError>>

\* _initialize_scheduler_jobs has gone through the collection; the constructor
\* returns and main gets to its command loop
SeedDone ==
    /\ pc = "seed"
    /\ cur.next > Len(workflows)
    /\ cur' = NoOp
    /\ pc' = "idle"
    /\ UNCHANGED <<workflows, file, jobs, inflight, lastRet, wrote, cancelled, ncmd,
                   lastError>>

\* a call that logs why it fails and returns without touching the collection
ReturnFailure(op, arg, why) ==
    /\ lastRet' = [op |-> op, ok |-> FALSE, id |-> arg.id, why |-> why]
    /\ ncmd' = ncmd + 1
    /\ UNCHANGED <<pc, workflows, file, jobs, inflight, cur, wrote,
                   cancelled, lastError>>

\* the collection is changed in memory; _save_workflows comes next
Commit(op, id, arg, wfs) ==
    /\ workflows' = wfs
    /\ cur' = [op |-> op, id |-> id, arg |-> arg]
    /\ pc' = "save"
    /\ wrote' = "none"
    /\ ncmd' = ncmd + 1
    /\ UNCHANGED <<file, jobs, inflight, lastRet, cancelled, lastError>>

AddWorkflow_always_generates(d, uuid) ==
    /\ pc = "idle"
    /\ ncmd < MaxCmds
    /\ uuid \notin Ids(workflows)
    /\ LET workflow_data == WithId(d, uuid)
       IN  IF ~ValidWorkflow(workflow_data)
           THEN ReturnFailure("add", workflow_data, "invalid")
           ELSE Commit("add", workflow_data.id, workflow_data,
                          DictSet(workflows, model_validate(workflow_data)))

AddWorkflow_overwrites(d, uuid) ==
    /\ pc = "idle"
    /\ ncmd < MaxCmds
    /\ "id" \in DOMAIN d \/ uuid \notin Ids(workflows)
    /\ LET workflow_data == IF "id" \in DOMAIN d THEN d ELSE WithId(d, uuid)
       IN  IF ~ValidWorkflow(workflow_data)
           THEN ReturnFailure("add", workflow_data, "invalid")
           ELSE Commit("add", workflow_data.id, workflow_data,
                          DictSet(workflows, model_validate(workflow_data)))

\* add_workflow up to self.workflows[workflow.id] = workflow
AddWorkflow(d, uuid) ==
    /\ pc = "idle"
    /\ ncmd < MaxCmds
    /\ "id" \in DOMAIN d \/ uuid \notin Ids(workflows)   \* uuid4 returns a fresh value
    /\ LET workflow_data == IF "id" \in DOMAIN d THEN d ELSE WithId(d, uuid)
       IN  IF ~ValidWorkflow(workflow_data)
           THEN ReturnFailure("add", workflow_data, "invalid")
           ELSE IF workflow_data.id \in Ids(workflows)
           THEN ReturnFailure("add", workflow_data, "exists")
           ELSE Commit("add", workflow_data.id, workflow_data,
                          DictSet(workflows, model_validate(workflow_data)))

UpdateWorkflow_checks_keys_only(workflow_id, upd) ==
    /\ pc = "idle"
    /\ ncmd < MaxCmds
    /\ IF workflow_id \notin Ids(workflows)
       THEN ReturnFailure("update", WithId(upd, workflow_id), "not_found")
       ELSE LET updated_data ==
                    MergeUpdate(get_workflow(workflows, workflow_id), upd, workflow_id)
            IN  IF ~({"trigger_type", "config"} \subseteq DOMAIN updated_data.trigger)
                THEN ReturnFailure("update", WithId(upd, workflow_id), "invalid")
                ELSE Commit("update", workflow_id, upd,
                            DictSet(workflows, model_validate(updated_data)))

UpdateWorkflow_upserts(workflow_id, upd) ==
    /\ pc = "idle"
    /\ ncmd < MaxCmds
    /\ LET updated_data ==
               IF workflow_id \in Ids(workflows)
               THEN MergeUpdate(get_workflow(workflows, workflow_id), upd, workflow_id)
               ELSE WithId(upd, workflow_id)
       IN  IF ~ValidWorkflow(updated_data)
           THEN ReturnFailure("update", WithId(upd, workflow_id), "invalid")
           ELSE Commit("update", workflow_id, upd,
                       DictSet(workflows, model_validate(updated_data)))

\* update_workflow up to self.workflows[workflow_id] = updated_workflow
UpdateWorkflow(workflow_id, upd) ==
    /\ pc = "idle"
    /\ ncmd < MaxCmds
    /\ IF workflow_id \notin Ids(workflows)
       THEN ReturnFailure("update", WithId(upd, workflow_id), "not_found")
       ELSE LET updated_data ==
                    MergeUpdate(get_workflow(workflows, workflow_id), upd, workflow_id)
            IN  IF ~ValidWorkflow(updated_data)
                THEN ReturnFailure("update", WithId(upd, workflow_id), "invalid")
                ELSE Commit("update", workflow_id, upd,
                            DictSet(workflows, model_validate(updated_data)))

DeleteWorkflow_without_lookup(workflow_id) ==
    /\ pc = "idle"
    /\ ncmd < MaxCmds
    /\ Commit("delete", workflow_id, [id |-> workflow_id],
              DictDel(workflows, workflow_id))

\* delete_workflow up to del self.workflows[workflow_id]
DeleteWorkflow(workflow_id) ==
    /\ pc = "idle"
    /\ ncmd < MaxCmds
    /\ IF workflow_id \notin Ids(workflows)
       THEN ReturnFailure("delete", [id |-> workflow_id], "not_found")
       ELSE Commit("delete", workflow_id, [id |-> workflow_id],
                   DictDel(workflows, workflow_id))

SaveOpenFails_undoes_add ==
    /\ pc = "save"
    /\ wrote' = "failed"
    /\ pc' = "sched"
    /\ lastError' = "save"
    /\ workflows' = IF cur.op = "add" THEN DictDel(workflows, cur.id) ELSE workflows
    /\ UNCHANGED <<file, jobs, inflight, cur, lastRet, cancelled, ncmd>>

\* _save_workflows: makedirs or open raises; the handler logs it and returns
SaveOpenFails ==
    /\ pc = "save"
    /\ wrote' = "failed"
    /\ pc' = "sched"
    /\ lastError' = "save"
    /\ UNCHANGED <<workflows, file, jobs, inflight, cur, lastRet,
                   cancelled, ncmd>>

\* _save_workflows: open(path, 'w') truncates the file
SaveTruncate ==
    /\ pc = "save"
    /\ file' = PartialFile(<< >>)
    /\ pc' = "writing"
    /\ UNCHANGED <<workflows, jobs, inflight, cur, lastRet, wrote,
                   cancelled, ncmd, lastError>>

\* _save_workflows: json.dump and the close of the file complete
SaveComplete ==
    /\ pc = "writing"
    /\ file' = SavedFile(workflows)
    /\ wrote' = "ok"
    /\ pc' = "sched"
    /\ UNCHANGED <<workflows, jobs, inflight, cur, lastRet,
                   cancelled, ncmd, lastError>>

\* _save_workflows: a write raises when k documents have reached the file whole
\* (k = Len(workflows): what is missing is the end of the list, which is all
\* there is to write of an empty collection); the handler logs it and returns
SaveWriteFails(k) ==
    /\ pc = "writing"
    /\ k <= Len(workflows)
    /\ file' = PartialFile(SubSeq(SavedFile(workflows).docs, 1, k))
    /\ wrote' = "failed"
    /\ pc' = "sched"
    /\ lastError' = "save"
    /\ UNCHANGED <<workflows, jobs, inflight, cur, lastRet,
                   cancelled, ncmd>>

Reconcile_rolls_back ==
    /\ pc = "sched"
    /\ IF cur.op = "delete"
       THEN /\ jobs' = remove_job(jobs, cur.id)
            /\ lastRet' = [op |-> "delete", ok |-> TRUE, id |-> cur.id, why |-> ""]
            /\ cancelled' = cancelled \cup {cur.id}
            /\ workflows' = workflows
       ELSE LET workflow == get_workflow(workflows, cur.id)
                scheduled == add_or_update_job(jobs, workflow)
                failed    == /\ workflow.is_enabled
                             /\ workflow.trigger.trigger_type = "cron"
                             /\ workflow.id \notin JobIds(scheduled)
            IN  /\ jobs' = scheduled
                /\ lastRet' = [op |-> cur.op, ok |-> ~failed, id |-> cur.id, why |-> ""]
                /\ cancelled' = IF workflow.is_enabled
                                THEN cancelled \ {cur.id}
                                ELSE cancelled \cup {cur.id}
                /\ workflows' = IF failed THEN DictDel(workflows, cur.id) ELSE workflows
    /\ cur' = NoOp
    /\ pc' = "idle"
    /\ UNCHANGED <<file, inflight, wrote, ncmd, lastError>>

\* the scheduler call that follows _save_workflows, and the return
Reconcile ==
    /\ pc = "sched"
    /\ IF cur.op = "delete"
       THEN /\ jobs' = remove_job(jobs, cur.id)
            /\ lastRet' = [op |-> "delete", ok |-> TRUE, id |-> cur.id, why |-> ""]
            /\ cancelled' = cancelled \cup {cur.id}
       ELSE LET workflow == get_workflow(workflows, cur.id)
            IN  /\ jobs' = add_or_update_job(jobs, workflow)
                /\ lastRet' = [op |-> cur.op, ok |-> TRUE, id |-> cur.id, why |-> ""]
                /\ cancelled' = IF workflow.is_enabled
                                THEN cancelled \ {cur.id}
                                ELSE cancelled \cup {cur.id}
    /\ cur' = NoOp
    /\ pc' = "idle"
    /\ UNCHANGED <<workflows, file, inflight, wrote, ncmd, lastError>>

InflightIds == {e.id : e \in inflight}

\* the scheduler thread starts a due job (max_instances is 1)
Fire(j) ==
    /\ j \in jobs
    /\ j.id \notin InflightIds
    /\ inflight' = inflight \cup {execute_workflow_action(j.workflow)}
    /\ UNCHANGED <<pc, workflows, file, jobs, cur, lastRet, wrote, cancelled, ncmd, lastError>>

jobs_after_error_unschedules(table, e) == remove_job(table, e.id)

\* the scheduler's job table after an execution raised: the handler of
\* execute_workflow_action only logs
jobs_after_error(table, e) == table

\* the action executor raises inside execute_workflow_action; the handler logs
\* the error and the function returns
FinishRaises(e) ==
    /\ e \in inflight
    /\ e.call # NoCall
    /\ inflight' = inflight \ {e}
    /\ lastError' = e.id
    /\ jobs' = jobs_after_error(jobs, e)
    /\ UNCHANGED <<pc, workflows, file, cur, lastRet, wrote, cancelled, ncmd>>

\* execute_workflow_action returns
Finish(e) ==
    /\ e \in inflight
    /\ inflight' = inflight \ {e}
    /\ UNCHANGED <<pc, workflows, file, jobs, cur, lastRet, wrote,
                   cancelled, ncmd, lastError>>

\* the process ends at any point and is started again: only the file survives
Restart ==
    /\ pc # "boot"
    /\ pc' = "boot"
    /\ workflows' = << >>
    /\ jobs' = {}
    /\ inflight' = {}
    /\ cur' = NoOp
    /\ lastRet' = NoRet
    /\ wrote' = "none"
    /\ cancelled' = {}
    /\ lastError' = ""
    /\ UNCHANGED <<file, ncmd>>

Next ==
    \/ Startup
    \/ SeedJob
    \/ SeedDone
    \/ \E d \in AddInputs, u \in UuidPool : AddWorkflow(d, u)
    \/ \E i \in AllIds, u \in UpdateDocs : UpdateWorkflow(i, u)
    \/ \E i \in AllIds : DeleteWorkflow(i)
    \/ SaveOpenFails
    \/ SaveTruncate
    \/ SaveComplete
    \/ \E k \in 0..Len(workflows) : SaveWriteFails(k)
    \/ Reconcile
    \/ \E j \in jobs : Fire(j)
    \/ \E e \in inflight : Finish(e)
    \/ Restart

Spec == Init /\ [][Next]_vars

\* updates that leave a navigate action with a url that is a false value
ExecUpdates ==
    {[action |-> [action_type |-> "navigate", params |-> [url |-> u]]] : u \in {PyNone, ""}}
        \cup {[action |-> [action_type |-> "scrape_element", params |-> [url |-> Url]]]}

\* the scheduler thread with an action executor that can raise, next to a
\* main thread whose writes succeed and that is not restarted; a raise changes
\* nothing but the error log
NextExec ==
    \/ Startup
    \/ SeedJob
    \/ SeedDone
    \/ \E d \in AddInputs, u \in UuidPool : AddWorkflow(d, u)
    \/ \E i \in AllIds, u \in UpdateDocs \cup ExecUpdates : UpdateWorkflow(i, u)
    \/ \E i \in AllIds : DeleteWorkflow(i)
    \/ SaveTruncate
    \/ SaveComplete
    \/ Reconcile
    \/ \E j \in jobs : Fire(j)
    \/ \E e \in inflight : Finish(e)
    \/ \E e \in inflight : FinishRaises(e)

SpecExec == Init /\ [][NextExec]_vars

---------------------------------------------------------------------------
(* Validation on its own: Trigger and Workflow built from one trigger document *)

CronChars == {"*", " "}

\* every string of at most len characters
CronStrings(len) == UNION {[1..n -> CronChars] : n \in 0..len}

TrigSemantic(expr) ==
    [trigger_type |-> "semantic_condition",
     config |-> [condition_description |-> "price below 100",
                 check_interval_cron   |-> expr]]

ConfigKeys ==
    {"cron_expression", "event_source", "event_type", "condition_description",
     "check_interval_cron"}

\* a value the validator accepts under key k
GoodValue(k) ==
    IF k \in {"cron_expression", "check_interval_cron"} THEN Str_0_8
    ELSE IF k = "event_source" THEN "manual"
    ELSE IF k = "event_type" THEN "button_click"
    ELSE "price below 100"

TriggerTypes == {"cron", "event", "semantic_condition", "webhook", ""}

\* triggers whose config holds any subset of the keys, or that lack a field
KeyInputs ==
    {[trigger_type |-> t, config |-> [k \in K |-> GoodValue(k)]] :
        t \in TriggerTypes, K \in SUBSET ConfigKeys}
    \cup {[trigger_type |-> t] : t \in TriggerTypes}
    \cup {[config |-> [cron_expression |-> Str_0_8]]}

FieldValues == {"manual", "", " ", "  ", "\t", " a ", PyNone, PyInt}

\* five-field strings whose first separator is any whitespace character, and
\* four-field strings that would count five if only the blank separated
SeparatorStrings ==
    {[Str_0_8 EXCEPT ![2] = w] : w \in Whitespace}
        \cup {[Str_0_8 EXCEPT ![2] = "_"], <<"*", "\t", "*", "\n", "*", " ", "*">>}

\* event and semantic_condition triggers with all keys and any values
ValueInputs ==
    {[trigger_type |-> "event", config |-> [event_source |-> a, event_type |-> b]] :
        a \in FieldValues, b \in FieldValues}
    \cup {[trigger_type |-> "semantic_condition",
           config |-> [condition_description |-> a, check_interval_cron |-> Str_0_8]] :
              a \in FieldValues}
    \cup {[trigger_type |-> "semantic_condition",
           config |-> [condition_description |-> "price below 100",
                       check_interval_cron   |-> Str_0_8,
                       required_tools_mcps   |-> l]] :
              l \in {[is_list |-> TRUE,  items |-> << >>],
                     [is_list |-> TRUE,  items |-> <<"browser">>],
                     [is_list |-> TRUE,  items |-> <<"browser", PyInt>>],
                     [is_list |-> FALSE, items |-> << >>]}}

TriggerInputs(len) ==
    {TrigCron(x) : x \in CronStrings(len) \cup SeparatorStrings}
        \cup {TrigSemantic(x) : x \in CronStrings(len) \cup SeparatorStrings}
        \cup KeyInputs \cup ValueInputs

InitValidate ==
    /\ pc = "validate"
    /\ cur \in {[op |-> "validate", id |-> "", arg |-> t] : t \in TriggerInputs(MaxCronLen)}
    /\ workflows = << >>
    /\ file = MissingFile
    /\ jobs = {}
    /\ inflight = {}
    /\ lastRet = NoRet
    /\ wrote = "none"
    /\ cancelled = {}
    /\ ncmd = 0
    /\ lastError = ""

Validated(op, ok) ==
    /\ pc = "validate"
    /\ pc' = "validated"
    /\ lastRet' = [op |-> op, ok |-> ok, id |-> "", why |-> IF ok THEN "" ELSE "invalid"]
    /\ UNCHANGED <<workflows, file, jobs, inflight, cur, wrote, cancelled, ncmd,
                   lastError>>

\* Trigger(**t)
ValidateTrigger == Validated("Trigger", ValidTrigger(cur.arg))

\* Workflow.model_validate of a document whose trigger is t
ValidateWorkflow ==
    Validated("Workflow",
              ValidWorkflow(WithId([DocDaily EXCEPT !.trigger = cur.arg], "a")))

NextValidate == ValidateTrigger \/ ValidateWorkflow

SpecValidate == InitValidate /\ [][NextValidate]_vars

---------------------------------------------------------------------------
(* Two threads calling the store.  The methods of WorkflowManager take no lock;
   a thread can be switched out between any two statements.  Under SpecConc pc,
   cur and lastRet are functions of the thread: pc[t] is the statement thread t
   is at, cur[t] its call, the workflow it holds in a local and the list
   _save_workflows has built to write, lastRet[t] what its call returned or
   raised. *)

Threads == {"t1", "t2"}

\* the calls a thread makes, on the store loaded from ExampleFile ("a", "b")
ConcCalls ==
    {[op |-> "add", id |-> "c", arg |-> WithId(DocDaily, "c")],
     [op |-> "add", id |-> "a", arg |-> WithId(DocMail, "a")],
     [op |-> "update", id |-> "a", arg |-> [name |-> "X"]],
     [op |-> "update", id |-> "a", arg |-> [trigger |-> TrigCron(Str_0_9)]],
     [op |-> "update", id |-> "a", arg |-> [is_enabled |-> FALSE]],
     [op |-> "update", id |-> "c", arg |-> [name |-> "X"]],
     [op |-> "delete", id |-> "a", arg |-> [id |-> "a"]],
     [op |-> "delete", id |-> "c", arg |-> [id |-> "c"]]}

NoLocal == [id |-> ""]

InitConc ==
    /\ pc = [t \in Threads |-> "idle"]
    /\ workflows = Load(ExampleFile)
    /\ file = ExampleFile
    /\ jobs = initialize_scheduler_jobs(Load(ExampleFile))
    /\ inflight = {}
    /\ cur = [t \in Threads |-> [op |-> "none", id |-> "", arg |-> NoLocal,
                               local |-> NoLocal, dump |-> << >>]]
    /\ lastRet = [t \in Threads |-> NoRet]
    /\ wrote = "none"
    /\ cancelled = {}
    /\ ncmd = 0
    /\ lastError = ""

\* thread t leaves its call: it returns (ok tells whether with a workflow /
\* True) or an exception leaves the method (why)
ConcReturn(t, c, ok, why) ==
    /\ pc' = [pc EXCEPT ![t] = "done"]
    /\ lastRet' = [lastRet EXCEPT ![t] = [op |-> c.op, ok |-> ok, id |-> c.id, why |-> why]]

\* the statements of a method up to its write to self.workflows: validation and
\* the lookup of the id
ConcBegin(t, c) ==
    /\ pc[t] = "idle"
    /\ ncmd' = ncmd + 1
    /\ LET local ==
               IF c.op = "add"
               THEN IF ValidWorkflow(c.arg) /\ c.id \notin Ids(workflows)
                    THEN model_validate(c.arg) ELSE NoLocal
               ELSE IF c.op = "update"
               THEN IF /\ c.id \in Ids(workflows)
                       /\ ValidWorkflow(MergeUpdate(get_workflow(workflows, c.id), c.arg, c.id))
                    THEN model_validate(MergeUpdate(get_workflow(workflows, c.id), c.arg, c.id))
                    ELSE NoLocal
               ELSE IF c.id \in Ids(workflows) THEN [id |-> c.id] ELSE NoLocal
       IN  /\ cur' = [cur EXCEPT ![t] = [op |-> c.op, id |-> c.id, arg |-> c.arg,
                                        local |-> local, dump |-> << >>]]
           /\ IF local = NoLocal
              THEN ConcReturn(t, c, FALSE, "")
              ELSE /\ pc' = [pc EXCEPT ![t] = "store"]
                   /\ lastRet' = lastRet
    /\ UNCHANGED <<workflows, file, jobs, inflight, wrote, cancelled, lastError>>

\* self.workflows[id] = workflow, or self.workflows[workflow_id].name and del
\* self.workflows[workflow_id], which raise KeyError when the id has gone
ConcStore(t) ==
    /\ pc[t] = "store"
    /\ IF cur[t].op = "delete"
       THEN IF cur[t].id \in Ids(workflows)
            THEN /\ workflows' = DictDel(workflows, cur[t].id)
                 /\ pc' = [pc EXCEPT ![t] = "save"]
                 /\ lastRet' = lastRet
            ELSE /\ workflows' = workflows
                 /\ ConcReturn(t, cur[t], FALSE, "KeyError")
       ELSE /\ workflows' = DictSet(workflows, cur[t].local)
            /\ pc' = [pc EXCEPT ![t] = "save"]
            /\ lastRet' = lastRet
    /\ UNCHANGED <<file, jobs, inflight, cur, wrote, cancelled, ncmd, lastError>>

\* _save_workflows: the list comprehension begins to walk self.workflows;
\* cur[t].dump is the dump of what it is to walk
ConcDumpBegin(t) ==
    /\ pc[t] = "save"
    /\ cur' = [cur EXCEPT ![t].dump = SavedFile(workflows).docs]
    /\ pc' = [pc EXCEPT ![t] = "dump"]
    /\ UNCHANGED <<workflows, file, jobs, inflight, lastRet, wrote, cancelled, ncmd,
                   lastError>>

\* _save_workflows: the list comprehension ends.  A dict whose size has changed
\* under the walk makes it raise RuntimeError, which the handler logs: nothing
\* is written.  Otherwise workflow_list_to_save holds each workflow as it was
\* when the walk came to it: as at the begin of the walk, or as it is now.
ConcDumpEnd(t) ==
    /\ pc[t] = "dump"
    /\ IF Len(workflows) # Len(cur[t].dump)
       THEN /\ pc' = [pc EXCEPT ![t] = "sched"]
            /\ lastError' = "save"
            /\ cur' = cur
       ELSE /\ pc' = [pc EXCEPT ![t] = "open"]
            /\ lastError' = lastError
            /\ \E d \in {cur[t].dump, SavedFile(workflows).docs} :
                   cur' = [cur EXCEPT ![t].dump = d]
    /\ UNCHANGED <<workflows, file, jobs, inflight, lastRet, wrote, cancelled, ncmd>>

\* _save_workflows: open(path, 'w') leaves the file empty
ConcOpen(t) ==
    /\ pc[t] = "open"
    /\ file' = PartialFile(<< >>)
    /\ pc' = [pc EXCEPT ![t] = "write"]
    /\ UNCHANGED <<workflows, jobs, inflight, cur, lastRet, wrote, cancelled, ncmd,
                   lastError>>

\* _save_workflows: json.dump and the close of the file put the text of
\* workflow_list_to_save at the begin of the file.  If the other thread has
\* written the file since this thread opened it, the text lies over the other
\* text: the file holds this thread's list if its text is at least as long,
\* and this thread's list with the end of the other text after it, which is no
\* JSON document, if it is shorter.  The model does not hold the length of a
\* text, so it takes both.
ConcWrite(t) ==
    /\ pc[t] = "write"
    /\ \/ file' = [state |-> "ok", docs |-> cur[t].dump]
       \/ /\ file # PartialFile(<< >>)
          /\ file' = PartialFile(cur[t].dump)
    /\ pc' = [pc EXCEPT ![t] = "sched"]
    /\ UNCHANGED <<workflows, jobs, inflight, cur, lastRet, wrote, cancelled, ncmd,
                   lastError>>

\* scheduler.add_or_update_job(workflow) with the method's local workflow, or
\* scheduler.remove_job(workflow_id); then the return
ConcSched(t) ==
    /\ pc[t] = "sched"
    /\ jobs' = IF cur[t].op = "delete"
               THEN remove_job(jobs, cur[t].id)
               ELSE add_or_update_job(jobs, cur[t].local)
    /\ ConcReturn(t, cur[t], TRUE, "")
    /\ UNCHANGED <<workflows, file, inflight, cur, wrote, cancelled, ncmd, lastError>>

NextConc ==
    \E t \in Threads :
        \/ \E c \in ConcCalls : ConcBegin(t, c)
        \/ ConcStore(t)
        \/ ConcDumpBegin(t)
        \/ ConcDumpEnd(t)
        \/ ConcOpen(t)
        \/ ConcWrite(t)
        \/ ConcSched(t)

SpecConc == InitConc /\ [][NextConc]_vars

\* the store, the file and the job table a call leaves when it runs alone
SeqCall(st, c) ==
    LET put(w) == [workflows |-> DictSet(st.workflows, w),
                   file      |-> SavedFile(DictSet(st.workflows, w)),
                   jobs      |-> add_or_update_job(st.jobs, w)]
    IN  IF c.op = "add"
        THEN IF ValidWorkflow(c.arg) /\ c.id \notin Ids(st.workflows)
             THEN put(model_validate(c.arg)) ELSE st
        ELSE IF c.op = "update"
        THEN IF /\ c.id \in Ids(st.workflows)
                /\ ValidWorkflow(MergeUpdate(get_workflow(st.workflows, c.id), c.arg, c.id))
             THEN put(model_validate(MergeUpdate(get_workflow(st.workflows, c.id), c.arg, c.id)))
             ELSE st
        ELSE IF c.id \in Ids(st.workflows)
             THEN [workflows |-> DictDel(st.workflows, c.id),
                   file      |-> SavedFile(DictDel(st.workflows, c.id)),
                   jobs      |-> remove_job(st.jobs, c.id)]
             ELSE st

ConcStart ==
    [workflows |-> Load(ExampleFile),
     file      |-> ExampleFile,
     jobs      |-> initialize_scheduler_jobs(Load(ExampleFile))]

CallOf(t) == [op |-> cur[t].op, id |-> cur[t].id, arg |-> cur[t].arg]

---------------------------------------------------------------------------
(* The scheduler module called on its own *)

\* validated workflows handed to add_or_update_job
SchedWorkflows ==
    {model_validate(WithId(d, i)) :
        d \in {DocDaily,
               [DocDaily EXCEPT !.trigger = TrigCron(Str_0_9)],
               [DocDaily EXCEPT !.trigger = TrigCron(Str_0_0_8)],
               [DocDaily EXCEPT !.is_enabled = FALSE],
               DocMail},
        i \in {"a", "b"}}

InitSched ==
    /\ pc = "scheduler"
    /\ workflows = << >>
    /\ file = MissingFile
    /\ jobs = {}
    /\ inflight = {}
    /\ cur = NoOp
    /\ lastRet = NoRet
    /\ wrote = "none"
    /\ cancelled = {}
    /\ ncmd = 0
    /\ lastError = ""

\* add_or_update_job(workflow); cur.again tells that the call before it was
\* the same call
CallAddOrUpdateJob(workflow) ==
    /\ pc = "scheduler"
    /\ ncmd < MaxSchedCalls
    /\ jobs' = add_or_update_job(jobs, workflow)
    /\ cur' = [op |-> "add_or_update_job", id |-> workflow.id, arg |-> workflow,
               again |-> (cur.op = "add_or_update_job" /\ cur.arg = workflow)]
    /\ ncmd' = ncmd + 1
    /\ UNCHANGED <<pc, workflows, file, inflight, lastRet, wrote, cancelled, lastError>>

\* remove_job(workflow_id)
CallRemoveJob(workflow_id) ==
    /\ pc = "scheduler"
    /\ ncmd < MaxSchedCalls
    /\ jobs' = remove_job(jobs, workflow_id)
    /\ cur' = [op |-> "remove_job", id |-> workflow_id]
    /\ ncmd' = ncmd + 1
    /\ UNCHANGED <<pc, workflows, file, inflight, lastRet, wrote, cancelled, lastError>>

NextSched ==
    \/ \E w \in SchedWorkflows : CallAddOrUpdateJob(w)
    \/ \E i \in {"a", "b"} : CallRemoveJob(i)

SpecSched == InitSched /\ [][NextSched]_vars

---------------------------------------------------------------------------
(* Late runs.  add_or_update_job hands every job to the scheduler with
   misfire_grace_time=300 and leaves the other job options at the library's
   defaults.  The scheduler's executor is not part of the sources: what it
   does with a due run is written down here as the library documents it.  The
   scheduler thread gets to a due run of a job some seconds after the run's
   nominal fire time. *)

\* seconds between the nominal fire time and the moment the run is looked at
Delays == {0, 1, 299, 300, 301, 600}

\* the executor's test on a run it is about to start: the run is missed when
\* now - run_time is greater than the job's grace time
run_within_grace(delay, grace) == ~(delay > grace)

\* job tables left by add_or_update_job calls
MisfireTables ==
    {add_or_update_job(add_or_update_job({}, v), w) : v \in SchedWorkflows, w \in SchedWorkflows}

InitMisfire ==
    /\ pc = "timer"
    /\ workflows = << >>
    /\ file = MissingFile
    /\ jobs \in MisfireTables
    /\ inflight = {}
    /\ cur = NoOp
    /\ lastRet = NoRet
    /\ wrote = "none"
    /\ cancelled = {}
    /\ ncmd = 0
    /\ lastError = ""

\* the scheduler thread processes a due run of job j, delay seconds late.  A
\* job whose earlier execution is still running is not submitted (one running
\* instance per job is the default); a submitted run starts the execution, or
\* is reported missed when it is later than the job's grace time.  The job
\* stays in the table with its next run time in every case.
RunDue(j, delay) ==
    /\ pc = "timer"
    /\ ncmd < MaxRuns
    /\ j \in jobs
    /\ inflight' = IF j.id \in InflightIds
                   THEN inflight
                   ELSE IF run_within_grace(delay, j.misfire_grace_time)
                   THEN inflight \cup {execute_workflow_action(j.workflow)}
                   ELSE inflight
    /\ cur' = [op |-> "due", id |-> j.id, delay |-> delay,
               running |-> j.id \in InflightIds]
    /\ ncmd' = ncmd + 1
    /\ UNCHANGED <<pc, workflows, file, jobs, lastRet, wrote, cancelled, lastError>>

NextMisfire ==
    \/ \E j \in jobs, delay \in Delays : RunDue(j, delay)
    \/ \E e \in inflight : Finish(e)

SpecMisfire == InitMisfire /\ [][NextMisfire]_vars

---------------------------------------------------------------------------
(* The end of the process.  Under SpecShutdown pc has a position for main
   (init, loop, finally, joining, exited) and one for the scheduler thread
   (running, stopped). *)

\* the ways main leaves its command loop: EOF on stdin, an empty line, an
\* exception that the loop's handler does not hold
ExitPaths == {"eof", "empty_line", "exception"}

InitShutdown ==
    /\ pc = [main |-> "init", scheduler |-> "running"]
    /\ workflows = << >>
    /\ file = MissingFile
    /\ jobs \in MisfireTables
    /\ inflight = {}
    /\ cur = NoOp
    /\ lastRet = NoRet
    /\ wrote = "none"
    /\ cancelled = {}
    /\ ncmd = 0
    /\ lastError = ""

\* the scheduler thread, while it runs, starts a due job
DueRun(j) ==
    /\ pc.scheduler = "running"
    /\ j \in jobs
    /\ j.id \notin InflightIds
    /\ inflight' = inflight \cup {execute_workflow_action(j.workflow)}
    /\ UNCHANGED <<pc, workflows, file, jobs, cur, lastRet, wrote, cancelled, ncmd, lastError>>

\* main: Agent(), WorkflowManager(), SettingsManager() and the print that
\* follows them return; main enters the try and its command loop
EnterLoop ==
    /\ pc.main = "init"
    /\ pc' = [pc EXCEPT !.main = "loop"]
    /\ UNCHANGED <<workflows, file, jobs, inflight, cur, lastRet, wrote, cancelled, ncmd,
                   lastError>>

\* main: one of them raises; they stand before the try, so main ends without
\* its finally block
ConstructorRaises ==
    /\ pc.main = "init"
    /\ pc' = [pc EXCEPT !.main = "exited"]
    /\ cur' = [op |-> "exit", how |-> "constructor"]
    /\ UNCHANGED <<workflows, file, jobs, inflight, lastRet, wrote, cancelled, ncmd,
                   lastError>>

\* main leaves the while loop and enters the finally block
LeaveLoop(how) ==
    /\ pc.main = "loop"
    /\ pc' = [pc EXCEPT !.main = "finally"]
    /\ cur' = [op |-> "exit", how |-> how]
    /\ UNCHANGED <<workflows, file, jobs, inflight, lastRet, wrote, cancelled, ncmd, lastError>>

\* main, finally block: the print to stderr that stands before
\* shutdown_scheduler() raises (the pipe to the parent process is gone); the
\* exception leaves the block and main, the call is not made
FinallyPrintRaises ==
    /\ pc.main = "finally"
    /\ pc' = [pc EXCEPT !.main = "exited"]
    /\ UNCHANGED <<workflows, file, jobs, inflight, cur, lastRet, wrote, cancelled, ncmd,
                   lastError>>

\* shutdown_scheduler(wait): a running scheduler is shut down (its thread
\* stops, the memory job store drops its jobs; with wait the call waits for the
\* executions in flight, without it returns at once); on a scheduler that is
\* not running it only logs.  main calls it in its finally block, after the
\* print, with the default wait=True; the call is also made again after that,
\* with either value.
ShutdownScheduler(wait) ==
    /\ pc.main \in {"finally", "exited"}
    /\ pc.main = "finally" => wait
    /\ ncmd < MaxShutdowns
    /\ ncmd' = ncmd + 1
    /\ IF pc.scheduler = "running"
       THEN /\ pc' = [main |-> IF wait THEN "joining" ELSE "exited",
                      scheduler |-> "stopped"]
            /\ jobs' = {}
       ELSE /\ pc' = [pc EXCEPT !.main = "exited"]
            /\ jobs' = jobs
    /\ UNCHANGED <<workflows, file, inflight, cur, lastRet, wrote, cancelled, lastError>>

\* scheduler.shutdown(wait=True) returns when no execution is in flight; main ends
ShutdownReturns ==
    /\ pc.main = "joining"
    /\ inflight = {}
    /\ pc' = [pc EXCEPT !.main = "exited"]
    /\ UNCHANGED <<workflows, file, jobs, inflight, cur, lastRet, wrote, cancelled, ncmd, lastError>>

NextShutdown ==
    \/ \E j \in jobs : DueRun(j)
    \/ \E e \in inflight : Finish(e)
    \/ EnterLoop
    \/ ConstructorRaises
    \/ \E how \in ExitPaths : LeaveLoop(how)
    \/ FinallyPrintRaises
    \/ \E wait \in BOOLEAN : ShutdownScheduler(wait)
    \/ ShutdownReturns

SpecShutdown == InitShutdown /\ [][NextShutdown]_vars

---------------------------------------------------------------------------
(* Construction of the store on a file of any content *)

\* entries of a persisted list: valid workflows (two of them under the same
\* id), dicts that fail validation, and values that are no dict
EntryPool ==
    {WithId(DocDaily, "a"),
     WithId(DocMail, "a"),
     WithId([DocDaily EXCEPT !.is_enabled = FALSE], "b"),
     WithId(DocInvalid, "c"),
     [name |-> "Daily Site Check"],
     NotObject("str"),
     NotObject("null")}

\* every list of at most len entries
EntryLists(len) == UNION {[1..n -> EntryPool] : n \in 0..len}

LoadFiles(len) ==
    {[state |-> "ok", docs |-> l] : l \in EntryLists(len)}
        \cup {MissingFile,
              PartialFile(<< >>),
              PartialFile(<<WithId(DocDaily, "a")>>),
              NotListFile(<< >>),
              NotListFile(<<WithId(DocDaily, "a")>>)}

InitLoad ==
    /\ pc = "boot"
    /\ workflows = << >>
    /\ file \in LoadFiles(MaxFileLen)
    /\ jobs = {}
    /\ inflight = {}
    /\ cur = NoOp
    /\ lastRet = NoRet
    /\ wrote = "none"
    /\ cancelled = {}
    /\ ncmd = 0
    /\ lastError = ""

NextLoad ==
    \/ Startup
    \/ SeedJob
    \/ SeedDone
    \/ \E j \in jobs : Fire(j)
    \/ \E e \in inflight : Finish(e)

SpecLoad == InitLoad /\ [][NextLoad]_vars

---------------------------------------------------------------------------
(* The store with documents that vary connector, action and trigger; writes *)
(* succeed and the process is not restarted                                 *)

ConnectorValues == {"browser", "gmail", "mail", "discord", "Browser", ""}

\* workflow_models.py __main__, example 3: an action type of no enum
ActionCustom ==
    [action_type |-> "some_custom_browser_action",
     params |-> [element_id |-> "myButton", value_to_set |-> "Hello World"]]

ActionInputs ==
    {[action_type |-> "navigate", params |-> [url |-> Url]],
     [action_type |-> "navigate"],
     [action_type |-> "navigate", params |-> EmptyMap],
     [action_type |-> "navigate", params |-> [url |-> PyInt]],
     [action_type |-> "navigate", params |-> [url |-> PyNone]],
     [action_type |-> "", params |-> EmptyMap],
     ActionCustom,
     [params |-> [url |-> Url]]}

TrigWebhook == [trigger_type |-> "webhook", config |-> EmptyMap]

TriggerValues ==
    {TrigCron(Str_0_8), TrigCron(Str_0_0_8), TrigCron(Str_0_tab_8), TrigEvent,
     TrigSemantic(Str_0_8), TrigWebhook}

DocVariants ==
    {[DocDaily EXCEPT !.target_connector = c] : c \in ConnectorValues}
        \cup {[DocDaily EXCEPT !.action = a] : a \in ActionInputs}
        \cup {[DocDaily EXCEPT !.trigger = t] : t \in TriggerValues}

DocAddInputs == DocVariants \cup {WithId(d, i) : d \in DocVariants, i \in ExplicitIds}

DocUpdates ==
    {[target_connector |-> c] : c \in ConnectorValues}
        \cup {[action |-> a] : a \in ActionInputs}
        \cup {[trigger |-> t] : t \in TriggerValues}

NextDocs ==
    \/ Startup
    \/ SeedJob
    \/ SeedDone
    \/ \E d \in DocAddInputs, u \in UuidPool : AddWorkflow(d, u)
    \/ \E i \in AllIds, u \in DocUpdates : UpdateWorkflow(i, u)
    \/ \E i \in AllIds : DeleteWorkflow(i)
    \/ SaveTruncate
    \/ SaveComplete
    \/ Reconcile

SpecDocs == Init /\ [][NextDocs]_vars

---------------------------------------------------------------------------
(* The store with its read operations *)

\* list_workflows: list(self.workflows.values())
list_workflows(wfs) == wfs

ReadUpdates == {[name |-> "X"], [is_enabled |-> FALSE], [trigger |-> TrigEvent]}

\* a file in which two records carry the id "a"
DuplicateFile ==
    [state |-> "ok",
     docs  |-> << WithId(DocDaily, "a"),
                  WithId([DocDaily EXCEPT !.is_enabled = FALSE], "b"),
                  WithId(DocMail, "a") >>]

\* a file with a valid record that no other file has and a record that fails
\* validation
SkippedFile ==
    [state |-> "ok",
     docs  |-> << WithId([DocDaily EXCEPT !.name = "Kept"], "b"),
                  WithId(DocInvalid, "c") >>]

\* a file that is no JSON document: a dump that stopped after its first record
CorruptFile == PartialFile(<<WithId(DocDaily, "a")>>)

InitRead ==
    /\ pc = "boot"
    /\ workflows = << >>
    /\ file \in InitFiles \cup {DuplicateFile, SkippedFile, CorruptFile}
    /\ jobs = {}
    /\ inflight = {}
    /\ cur = NoOp
    /\ lastRet = NoRet
    /\ wrote = "none"
    /\ cancelled = {}
    /\ ncmd = 0
    /\ lastError = ""

\* list_workflows() is called and returns
ListWorkflows ==
    /\ pc = "idle"
    /\ lastRet' = [op |-> "list", ok |-> TRUE, id |-> "", why |-> "",
                   value |-> list_workflows(workflows)]
    /\ UNCHANGED <<pc, workflows, file, jobs, inflight, cur, wrote, cancelled, ncmd, lastError>>

\* get_workflow(workflow_id) is called and returns the workflow or None
GetWorkflow(workflow_id) ==
    /\ pc = "idle"
    /\ lastRet' = [op |-> "get", ok |-> workflow_id \in Ids(workflows), id |-> workflow_id,
                   why |-> "",
                   value |-> IF workflow_id \in Ids(workflows)
                             THEN <<get_workflow(workflows, workflow_id)>> ELSE << >>]
    /\ UNCHANGED <<pc, workflows, file, jobs, inflight, cur, wrote, cancelled, ncmd, lastError>>

NextRead ==
    \/ Startup
    \/ SeedJob
    \/ SeedDone
    \/ \E d \in AddInputs, u \in UuidPool : AddWorkflow(d, u)
    \/ \E i \in AllIds, u \in ReadUpdates : UpdateWorkflow(i, u)
    \/ \E i \in AllIds : DeleteWorkflow(i)
    \/ SaveTruncate
    \/ SaveComplete
    \/ Reconcile
    \/ ListWorkflows
    \/ \E i \in AllIds : GetWorkflow(i)

SpecRead == InitRead /\ [][NextRead]_vars

---------------------------------------------------------------------------
(* The command router in front of the store.  A natural-language command is
   given as the groups its pattern matches: the name, the action description
   (navigate to a url, list emails with or without a count, anything else) and
   the cron string; an agent_command carries a JSON document. *)

\* the descriptions of a command (one url has capitals outside A-Z);
\* count_str is the run of digits after "count", as a sequence of characters;
\* a description without a count has no count_str
NLActions ==
    {[kind |-> "navigate", url |-> Url],
     [kind |-> "navigate", url |-> "https://Example.com/Path"],
     [kind |-> "navigate", url |-> "https://example.com/Été/ÀÞ"],
     [kind |-> "list_emails"],
     [kind |-> "list_emails", count_str |-> <<"0">>],
     [kind |-> "list_emails", count_str |-> <<"7">>],
     [kind |-> "list_emails", count_str |-> <<"0", "1", "2">>],
     [kind |-> "other"]}

\* "create workflow NAME to ACTION on schedule CRON" with a cron of five fields
NLCommands ==
    {[kind |-> "nl", name |-> n, action_description |-> a, cron_string |-> c] :
        n \in {"Morning News"}, a \in NLActions, c \in {Str_0_8, Str_0_9}}

\* "agent_command: create workflow {...}" with a document that carries its id,
\* or with the empty document {}
JsonCommands ==
    {[kind |-> "agent_command", payload |-> WithId(d, i)] : d \in AddDocs, i \in ExplicitIds}
        \cup {[kind |-> "agent_command", payload |-> << >>]}

\* "agent_command: update workflow {...}" and "agent_command: delete workflow
\* {...}": the document of an update with its id or without it, the document
\* of a delete with its id, with other keys beside it, or empty
CrudCommands ==
    {[kind |-> "agent_command_update", payload |-> p] :
        p \in {WithId(u, i) : u \in ReadUpdates, i \in AllIds} \cup ReadUpdates}
    \cup {[kind |-> "agent_command_delete", payload |-> p] :
        p \in {[id |-> i] : i \in AllIds} \cup {[id |-> "a", name |-> "X"], << >>}}

EchoMessage == [tool |-> "echo_message"]

\* str.lower() of one character, for the characters a string of the model can
\* hold (up to U+00FF): A-Z and the capitals U+00C0..U+00DE without U+00D7
LowerChar(c) ==
    CASE c = "A" -> "a" [] c = "B" -> "b" [] c = "C" -> "c" [] c = "D" -> "d"
      [] c = "E" -> "e" [] c = "F" -> "f" [] c = "G" -> "g" [] c = "H" -> "h"
      [] c = "I" -> "i" [] c = "J" -> "j" [] c = "K" -> "k" [] c = "L" -> "l"
      [] c = "M" -> "m" [] c = "N" -> "n" [] c = "O" -> "o" [] c = "P" -> "p"
      [] c = "Q" -> "q" [] c = "R" -> "r" [] c = "S" -> "s" [] c = "T" -> "t"
      [] c = "U" -> "u" [] c = "V" -> "v" [] c = "W" -> "w" [] c = "X" -> "x"
      [] c = "Y" -> "y" [] c = "Z" -> "z" [] c = "À" -> "à" [] c = "Á" -> "á"
      [] c = "Â" -> "â" [] c = "Ã" -> "ã" [] c = "Ä" -> "ä" [] c = "Å" -> "å"
      [] c = "Æ" -> "æ" [] c = "Ç" -> "ç" [] c = "È" -> "è" [] c = "É" -> "é"
      [] c = "Ê" -> "ê" [] c = "Ë" -> "ë" [] c = "Ì" -> "ì" [] c = "Í" -> "í"
      [] c = "Î" -> "î" [] c = "Ï" -> "ï" [] c = "Ð" -> "ð" [] c = "Ñ" -> "ñ"
      [] c = "Ò" -> "ò" [] c = "Ó" -> "ó" [] c = "Ô" -> "ô" [] c = "Õ" -> "õ"
      [] c = "Ö" -> "ö" [] c = "Ø" -> "ø" [] c = "Ù" -> "ù" [] c = "Ú" -> "ú"
      [] c = "Û" -> "û" [] c = "Ü" -> "ü" [] c = "Ý" -> "ý" [] c = "Þ" -> "þ"
      [] OTHER -> c

\* str.lower(): every character of the string in lower case
RECURSIVE lower(_)
lower(x) ==
    IF Len(x) = 0 THEN x
    ELSE LowerChar(SubSeq(x, 1, 1)) \o lower(SubSeq(x, 2, Len(x)))

\* Agent.process_message: the tool call it returns for a command; the url is
\* taken from the action description after that was put in lower case; the
\* count is int(count_str) of a count that is given, 5 if none is given; an
\* update or delete command without "id" in its document is answered with an
\* error message, a delete passes on the id alone
process_message(m) ==
    IF m.kind = "agent_command"
    THEN [tool |-> "add_workflow", data |-> m.payload]
    ELSE IF m.kind = "agent_command_update"
    THEN IF "id" \in DOMAIN m.payload
         THEN [tool |-> "update_workflow", data |-> m.payload]
         ELSE EchoMessage
    ELSE IF m.kind = "agent_command_delete"
    THEN IF "id" \in DOMAIN m.payload
         THEN [tool |-> "delete_workflow", data |-> [id |-> m.payload.id]]
         ELSE EchoMessage
    ELSE IF m.action_description.kind = "other" THEN EchoMessage
    ELSE IF ~(Len(split(m.cron_string)) >= 5 /\ Len(split(m.cron_string)) <= 6) THEN EchoMessage
    ELSE [tool |-> "add_workflow",
          data |->
            [name |-> m.name,
             trigger |-> [trigger_type |-> "cron",
                          config |-> [cron_expression |-> m.cron_string]],
             target_connector |->
                 IF m.action_description.kind = "navigate" THEN "BROWSER" ELSE "GMAIL",
             action |->
                 IF m.action_description.kind = "navigate"
                 THEN [action_type |-> "NAVIGATE",
                       params |-> [url |-> lower(m.action_description.url)]]
                 ELSE [action_type |-> "LIST_EMAILS",
                       params |->
                           [count |->
                               IF "count_str" \in DOMAIN m.action_description
                               THEN NumVal(m.action_description.count_str,
                                           Len(m.action_description.count_str))
                               ELSE 5]],
             is_enabled |-> TRUE]]

\* main: a command whose tool call is add_workflow goes to the store if the
\* tool call carries data (`if wf_data:`); for an empty document main calls no
\* method of the store and answers "Error: No data provided for add_workflow
\* tool." (lastRet holds that answer, ncmd counts the command main has read)
RouteAdd(m, uuid) ==
    /\ process_message(m).tool = "add_workflow"
    /\ LET wf_data == process_message(m).data
       IN  IF DOMAIN wf_data # {}
           THEN AddWorkflow(wf_data, uuid)
           ELSE /\ pc = "idle"
                /\ ncmd < MaxCmds
                /\ lastRet' = [op |-> "main", ok |-> FALSE, id |-> "", why |-> "no_data"]
                /\ ncmd' = ncmd + 1
                /\ UNCHANGED <<pc, workflows, file, jobs, inflight, cur,
                               wrote, cancelled, lastError>>

\* main: update_workflow(wf_data['id'], wf_data), the data with its id in it;
\* without data or without an id in it main calls no method of the store and
\* answers with an error
RouteUpdate(m) ==
    /\ process_message(m).tool = "update_workflow"
    /\ LET wf_data == process_message(m).data
       IN  IF DOMAIN wf_data # {} /\ "id" \in DOMAIN wf_data
           THEN UpdateWorkflow(wf_data.id, wf_data)
           ELSE /\ pc = "idle"
                /\ ncmd < MaxCmds
                /\ lastRet' = [op |-> "main", ok |-> FALSE, id |-> "", why |-> "no_id"]
                /\ ncmd' = ncmd + 1
                /\ UNCHANGED <<pc, workflows, file, jobs, inflight, cur,
                               wrote, cancelled, lastError>>

\* main: delete_workflow(wf_data['id']); without data or id as for an update
RouteDelete(m) ==
    /\ process_message(m).tool = "delete_workflow"
    /\ LET wf_data == process_message(m).data
       IN  IF DOMAIN wf_data # {} /\ "id" \in DOMAIN wf_data
           THEN DeleteWorkflow(wf_data.id)
           ELSE /\ pc = "idle"
                /\ ncmd < MaxCmds
                /\ lastRet' = [op |-> "main", ok |-> FALSE, id |-> "", why |-> "no_id"]
                /\ ncmd' = ncmd + 1
                /\ UNCHANGED <<pc, workflows, file, jobs, inflight, cur,
                               wrote, cancelled, lastError>>

NextRouter ==
    \/ Startup
    \/ SeedJob
    \/ SeedDone
    \/ \E m \in NLCommands \cup JsonCommands, u \in UuidPool : RouteAdd(m, u)
    \/ \E m \in CrudCommands : RouteUpdate(m)
    \/ \E m \in CrudCommands : RouteDelete(m)
    \/ SaveTruncate
    \/ SaveComplete
    \/ Reconcile

SpecRouter == Init /\ [][NextRouter]_vars

---------------------------------------------------------------------------
(* Properties *)

Idle == pc = "idle"

\* the operation and the id of the call a step begins: a call either fails at
\* once or starts its mutation
StepOp == IF pc' = "save" THEN cur'.op ELSE lastRet'.op

StepId == IF pc' = "save" THEN cur'.id ELSE lastRet'.id

CallStep(op) == pc = "idle" /\ ncmd' = ncmd + 1 /\ StepOp = op

\* the step is a call that returns None / False and changes nothing
FailsUnchanged ==
    /\ pc' = "idle"
    /\ ~lastRet'.ok
    /\ workflows' = workflows
    /\ file' = file
    /\ jobs' = jobs

\* C1: whenever no mutation is in progress, the ids of the scheduler's jobs are
\* the ids of the stored workflows that are enabled and cron-triggered.
C1_JobsMatchStore ==
    Idle => JobIds(jobs) = EnabledCronIds(workflows)

\* C2: once delete_workflow(id) has returned true or an update has returned the
\* workflow disabled, no execution of that id starts until it is added or
\* enabled again; executions already running are left alone.
C2_NoFireAfterCancel ==
    [][\A i \in cancelled : i \notin {e.id : e \in inflight' \ inflight}]_vars

\* an execution that began before the delete or the disabling returned is
\* still running
C2_Witness ==
    /\ Idle
    /\ lastRet.ok
    /\ lastRet.op \in {"delete", "update"}
    /\ lastRet.id \in cancelled
    /\ lastRet.id \in InflightIds

\* C3: after the store is constructed at process start and before any command,
\* the collection is what the file holds and the scheduler has a job for
\* exactly the loaded workflows that are enabled and cron-triggered.
C3_StartupReseed ==
    (Idle /\ lastRet.op = "none") =>
        /\ workflows = Load(file)
        /\ JobIds(jobs) = EnabledCronIds(workflows)

\* C4: after add_workflow or update_workflow returned a workflow, an enabled
\* workflow whose cron trigger passed validation has a job under its id, and a
\* disabled one has none.
C4_ValidCronScheduled ==
    (Idle /\ lastRet.ok /\ lastRet.op \in {"add", "update"}) =>
        LET w == get_workflow(workflows, lastRet.id)
        IN  /\ (w.is_enabled /\ w.trigger.trigger_type = "cron")
                   => w.id \in JobIds(jobs)
            /\ ~w.is_enabled => w.id \notin JobIds(jobs)

\* C5: when a mutation reaches its scheduler call, the write of the whole
\* collection to the file has completed.
C5_PersistBeforeReconcile ==
    pc = "sched" => (wrote = "ok" /\ file = SavedFile(workflows))

\* C6: a mutation whose write of the file failed does not return success.
C6_WriteFailureSurfaced ==
    (Idle /\ wrote = "failed") => ~lastRet.ok

\* C7: after a mutation whose write succeeded, a fresh store constructed on the
\* file holds the same workflows, field for field and in the same order, as
\* the collection in memory.
C7_RoundTrip ==
    (Idle /\ wrote = "ok") => Load(file) = workflows

\* a saved collection with a disabled workflow and one added without
\* is_enabled and with the gmail connector
C7_Witness ==
    /\ Idle
    /\ wrote = "ok"
    /\ lastRet.ok
    /\ \E i, k \in 1..Len(workflows) :
          /\ ~workflows[i].is_enabled
          /\ workflows[k].target_connector = "TargetConnectorType.GMAIL"

\* C8: every change of the file replaces it by the complete new collection; no
\* step leaves an empty or partial file.
C8_AtomicReplace ==
    [][file' = file \/ file' = SavedFile(workflows)]_vars

\* C9: whenever no mutation is in progress, the workflow bound to each job is
\* the store's current workflow of that id.
C9_SnapshotCurrent ==
    Idle => \A j \in jobs :
                /\ j.id \in Ids(workflows)
                /\ j.workflow = get_workflow(workflows, j.id)

\* C10: every execution that starts invokes the action executor, whatever the
\* connector and the action type of its workflow.
C10_ExecutorAlwaysInvoked ==
    \A e \in inflight : e.call # NoCall

\* C11: when the action executor raises during an execution, the step that
\* handles the error leaves the job table as it was, so the job stays
\* registered under its id, and the execution has ended, so the job is free to
\* fire at its next occurrence.
C11_ErrorContained ==
    [][(lastError' # lastError /\ lastError' # "") =>
          /\ jobs' = jobs
          /\ lastError' \in InflightIds
          /\ lastError' \notin {e.id : e \in inflight'}
          /\ pc' = pc]_vars

\* the job whose execution raised is still registered and is running again
C11_Witness ==
    /\ lastError # ""
    /\ lastError \in JobIds(jobs)
    /\ \E e \in inflight : e.id = lastError /\ e.call # NoCall

\* C12: add_workflow with an id that is already stored returns None; the stored
\* record of that id, the order and number of records, the file and the job
\* table stay as they were.
C12_DuplicateAddRejected ==
    [][(CallStep("add") /\ StepId \in Ids(workflows)) => FailsUnchanged]_vars

\* a valid document was refused because its id is taken, and the first
\* workflow of that id still has its job
C12_Witness ==
    /\ Idle
    /\ lastRet = [op |-> "add", ok |-> FALSE, id |-> "a", why |-> "exists"]
    /\ Cardinality({i \in 1..Len(workflows) : workflows[i].id = "a"}) = 1
    /\ "a" \in JobIds(jobs)

\* C13: delete_workflow on a stored id removes the record, and when it returns
\* it returns true with neither a record nor a job of that id left; on an id
\* that is not stored (as after a first delete) it returns false and leaves
\* the collection, the file and the job table as they were.
C13_DeleteIdempotent ==
    [][/\ (CallStep("delete") /\ StepId \in Ids(workflows)) =>
             (pc' = "save" /\ workflows' = DictDel(workflows, StepId)
                          /\ StepId \notin Ids(workflows'))
       /\ (pc = "sched" /\ cur.op = "delete" /\ pc' = "idle") =>
             /\ lastRet' = [op |-> "delete", ok |-> TRUE, id |-> cur.id, why |-> ""]
             /\ cur.id \notin Ids(workflows')
             /\ cur.id \notin JobIds(jobs')
       /\ (CallStep("delete") /\ StepId \notin Ids(workflows)) => FailsUnchanged]_vars

\* the second delete of an id this process deleted before has returned false
C13_Witness ==
    /\ Idle
    /\ lastRet.op = "delete"
    /\ ~lastRet.ok
    /\ lastRet.id \in cancelled
    /\ lastRet.id \notin Ids(workflows)
    /\ lastRet.id \notin JobIds(jobs)
    /\ workflows # << >>

\* C14: update_workflow changes only the top-level fields present in the update
\* document and no other workflow.  With {name: X} on a stored enabled cron
\* workflow the call goes through, the name becomes X, trigger,
\* target_connector, action and is_enabled keep their values, and a job the
\* scheduler had for the id is still there with the same cron schedule when
\* the call returns.
C14_UpdateFrame ==
    /\ [](Idle => \A i \in Ids(workflows) :
                     ValidWorkflow(MergeUpdate(get_workflow(workflows, i),
                                               [name |-> "X"], i)))
    /\ [][/\ (CallStep("update") /\ pc' = "save") =>
                LET old == get_workflow(workflows, StepId)
                    new == get_workflow(workflows', StepId)
                    upd == cur'.arg
                IN  /\ \A k \in DOMAIN old \ DOMAIN upd : new[k] = old[k]
                    /\ "name" \in DOMAIN upd => new.name = upd.name
                    /\ Len(workflows') = Len(workflows)
                    /\ \A i \in 1..Len(workflows) :
                          workflows[i].id # StepId => workflows'[i] = workflows[i]
          /\ (pc = "sched" /\ pc' = "idle" /\ cur.op = "update"
                /\ cur.arg = [name |-> "X"]) =>
                \A j \in jobs : j.id = cur.id =>
                    \E j2 \in jobs' : j2.id = cur.id /\ j2.cron = j.cron]_vars

\* a name-only update of an enabled cron workflow that was not named X has
\* returned; the workflow is named X and its job is registered
C14_Witness ==
    /\ Idle
    /\ lastRet.ok
    /\ lastRet.op = "update"
    /\ lastRet.id \in JobIds(jobs)
    /\ LET w == get_workflow(workflows, lastRet.id)
       IN  /\ w.name = "X"
           /\ w.is_enabled
           /\ w.trigger = TrigCron(Str_0_8)
           /\ \E j \in jobs : j.id = w.id /\ j.cron = Str_0_8 /\ j.workflow = w

\* C15: update_workflow never changes a workflow's id, whatever "id" the update
\* document carries: the collection keeps the same ids at the same places, the
\* updated record carries the id the call was made with, and the scheduler
\* call adds no job under any other id.
C15_UpdateKeepsId ==
    [][/\ (CallStep("update") /\ pc' = "save") =>
             /\ Len(workflows') = Len(workflows)
             /\ \A i \in 1..Len(workflows) : workflows'[i].id = workflows[i].id
             /\ get_workflow(workflows', StepId).id = StepId
       /\ (pc = "sched" /\ pc' = "idle" /\ cur.op = "update") =>
             /\ JobIds(jobs') \subseteq JobIds(jobs) \cup {cur.id}
             /\ lastRet'.id = cur.id]_vars

\* an update whose document names another, unused id has changed the record
\* of the id it was called with
C15_Witness ==
    /\ pc = "sched"
    /\ cur.op = "update"
    /\ "id" \in DOMAIN cur.arg
    /\ cur.arg.id # cur.id
    /\ cur.arg.id \notin Ids(workflows)
    /\ cur.arg.id \notin JobIds(jobs)
    /\ get_workflow(workflows, cur.id).name = cur.arg.name

\* C16: update_workflow on an id that is not stored returns None and creates
\* nothing: the collection, the file and the job table stay as they were.
C16_UpdateMissingRejected ==
    [][(CallStep("update") /\ StepId \notin Ids(workflows)) =>
          (FailsUnchanged /\ lastRet'.why = "not_found")]_vars

\* an update of an id that is not stored has returned None next to a stored
\* workflow and its job
C16_Witness ==
    /\ Idle
    /\ lastRet.op = "update"
    /\ ~lastRet.ok
    /\ lastRet.why = "not_found"
    /\ lastRet.id \notin Ids(workflows)
    /\ lastRet.id \notin JobIds(jobs)
    /\ jobs # {}

\* C17: update_workflow validates the complete merged document.  An update of
\* a stored id either stores the validated merged document, which then is
\* valid, or, the merged document being invalid, returns None and leaves the
\* stored workflow, the file and the job table exactly as they were.
C17_InvalidUpdateRejected ==
    [][(CallStep("update") /\ StepId \in Ids(workflows)) =>
          \/ /\ pc' = "save"
             /\ LET updated_data ==
                        MergeUpdate(get_workflow(workflows, StepId), cur'.arg, StepId)
                IN  /\ ValidWorkflow(updated_data)
                    /\ get_workflow(workflows', StepId) = model_validate(updated_data)
          \/ /\ FailsUnchanged
             /\ lastRet'.why = "invalid"]_vars

\* an update of a stored, scheduled workflow has been refused as invalid
C17_Witness ==
    /\ Idle
    /\ lastRet.op = "update"
    /\ ~lastRet.ok
    /\ lastRet.why = "invalid"
    /\ lastRet.id \in Ids(workflows)
    /\ lastRet.id \in JobIds(jobs)
    /\ file = SavedFile(workflows)

\* number of whitespace-separated fields of a string: the positions where a
\* field begins
CountFields(x) ==
    Cardinality({i \in 1..Len(x) :
                    x[i] \notin Whitespace /\ (i = 1 \/ x[i - 1] \in Whitespace)})

\* the cron string of a trigger document, the empty string if it has none
CronOf(t) ==
    IF "config" \notin DOMAIN t THEN << >>
    ELSE IF "cron_expression" \in DOMAIN t.config THEN t.config.cron_expression
    ELSE IF "check_interval_cron" \in DOMAIN t.config THEN t.config.check_interval_cron
    ELSE << >>

\* C18: a cron trigger's cron_expression and a semantic_condition trigger's
\* check_interval_cron are accepted exactly when the string has 5 or 6
\* whitespace-separated fields.
C18_CronFieldCount ==
    pc = "validated" =>
        LET t == cur.arg
        IN  /\ t = TrigCron(CronOf(t)) =>
                  (lastRet.ok <=> CountFields(t.config.cron_expression) \in {5, 6})
            /\ t = TrigSemantic(CronOf(t)) =>
                  (lastRet.ok <=> CountFields(t.config.check_interval_cron) \in {5, 6})

\* a semantic_condition trigger whose check_interval_cron has 6 fields, put
\* apart by more than one blank, has been accepted
C18_Witness ==
    /\ pc = "validated"
    /\ lastRet.ok
    /\ cur.arg = TrigSemantic(CronOf(cur.arg))
    /\ CountFields(cur.arg.config.check_interval_cron) = 6
    /\ Len(cur.arg.config.check_interval_cron) > 11

\* the keys a trigger type requires in config
RequiredKeys(t) ==
    IF t = "cron" THEN {"cron_expression"}
    ELSE IF t = "event" THEN {"event_source", "event_type"}
    ELSE IF t = "semantic_condition" THEN {"condition_description", "check_interval_cron"}
    ELSE {}

\* C19: a trigger without config, and a trigger whose config lacks a key that
\* its trigger_type requires, is rejected.
C19_RequiredKeys ==
    pc = "validated" =>
        LET t == cur.arg
        IN  /\ "config" \notin DOMAIN t => ~lastRet.ok
            /\ ({"trigger_type", "config"} \subseteq DOMAIN t
                   /\ ~(RequiredKeys(t.trigger_type) \subseteq DOMAIN t.config))
                  => ~lastRet.ok

\* an event trigger that has event_source but no event_type has been rejected
C19_Witness ==
    /\ pc = "validated"
    /\ ~lastRet.ok
    /\ {"trigger_type", "config"} \subseteq DOMAIN cur.arg
    /\ cur.arg.trigger_type = "event"
    /\ "event_source" \in DOMAIN cur.arg.config
    /\ "event_type" \notin DOMAIN cur.arg.config

\* C20: an event trigger whose event_source or event_type is an empty string
\* or not a string is rejected.
C20_EventFieldsNonEmpty ==
    (pc = "validated" /\ {"trigger_type", "config"} \subseteq DOMAIN cur.arg
        /\ cur.arg.trigger_type = "event"
        /\ {"event_source", "event_type"} \subseteq DOMAIN cur.arg.config) =>
        (lastRet.ok =>
            /\ cur.arg.config.event_source \notin NonStr \cup {""}
            /\ cur.arg.config.event_type \notin NonStr \cup {""})

\* C21 as claimed: the connectors add_workflow accepts are "browser" and
\* "mail"; an add with any other value returns None and changes nothing.
C21_ConnectorBrowserMail ==
    [][CallStep("add") =>
          \/ pc' = "save" /\ cur'.arg.target_connector \in {"browser", "mail"}
          \/ FailsUnchanged]_vars

\* C21 as amended: add_workflow accepts a document exactly when its
\* target_connector is a value of TargetConnectorType, "browser" or "gmail":
\* the add of an otherwise valid document with one of the two under an unused
\* id goes through, every add that goes through carries one of the two and is stored as the member of that
\* value, and every other add returns None with the collection, the file and
\* the job table unchanged.
C21_ConnectorBrowserGmail ==
    /\ []((Idle /\ ncmd < MaxCmds /\ "a" \notin Ids(workflows)) =>
             \A c \in {"browser", "gmail"} :
                 ENABLED (/\ AddWorkflow(WithId([DocDaily EXCEPT !.target_connector = c],
                                                "a"), "u1")
                          /\ pc' = "save"))
    /\ [][CallStep("add") =>
            \/ /\ pc' = "save"
               /\ cur'.arg.target_connector \in {"browser", "gmail"}
               /\ get_workflow(workflows', StepId).target_connector
                      = EnumMember(cur'.arg.target_connector)
            \/ FailsUnchanged]_vars

\* after a gmail workflow was stored, an add has been refused as invalid
C21_Witness ==
    /\ Idle
    /\ lastRet.op = "add"
    /\ ~lastRet.ok
    /\ lastRet.why = "invalid"
    /\ \E i \in 1..Len(workflows) :
          workflows[i].target_connector = "TargetConnectorType.GMAIL"
    /\ file = SavedFile(workflows)

\* the params an action is stored with: those given, {} when none are given
ParamsOf(a) == IF "params" \in DOMAIN a THEN a.params ELSE EmptyMap

\* C22: the action is not checked when a workflow is stored.  In an otherwise
\* valid document any action that has an action_type goes through add_workflow
\* (under an unused id) and update_workflow (on a stored id), whether the type
\* is unknown or navigate comes without url or with an ill-formed one, and the
\* workflow is stored with that action_type and those params as given.
C22_ActionUnchecked ==
    /\ []((Idle /\ ncmd < MaxCmds) =>
             \A a \in {x \in ActionInputs : "action_type" \in DOMAIN x} :
                 /\ "a" \notin Ids(workflows) =>
                        ENABLED (/\ AddWorkflow(WithId([DocDaily EXCEPT !.action = a], "a"),
                                                "u1")
                                 /\ pc' = "save")
                 /\ \A i \in Ids(workflows) :
                        ENABLED (UpdateWorkflow(i, [action |-> a]) /\ pc' = "save"))
    /\ [][((CallStep("add") \/ CallStep("update")) /\ pc' = "save"
              /\ "action" \in DOMAIN cur'.arg) =>
            get_workflow(workflows', StepId).action =
                [action_type |-> cur'.arg.action.action_type,
                 params      |-> ParamsOf(cur'.arg.action)]]_vars

\* a workflow with an action type of no enum is stored next to a navigate
\* workflow stored without url
C22_Witness ==
    /\ Idle
    /\ lastRet.ok
    /\ \E i, k \in 1..Len(workflows) :
          /\ workflows[i].action = ActionCustom
          /\ workflows[k].action = [action_type |-> "navigate", params |-> EmptyMap]

\* C23: after the store is constructed on a file that holds a JSON list, every
\* entry of the list that passes validation is in the store under its id,
\* whatever the other entries are.
C23_LoadSkipsBadEntries ==
    (Idle /\ file.state = "ok") =>
        \A i \in 1..Len(file.docs) :
            ValidWorkflow(file.docs[i]) => file.docs[i].id \in Ids(workflows)

\* C24: constructing the store on a missing file, on a file that is no JSON
\* document and on a document that is no list completes (the load is followed
\* by the seeding, which finds nothing to register, and the store becomes
\* idle) with an empty collection and an empty job table, and leaves the file
\* as it was.
C24_BadFileEmptyStore ==
    [][(pc \in {"boot", "seed"} /\ file.state \in {"missing", "partial", "notlist"}) =>
          /\ pc' = IF pc = "boot" THEN "seed" ELSE "idle"
          /\ workflows' = << >>
          /\ jobs' = {}
          /\ inflight' = {}
          /\ file' = file]_vars

\* the store was constructed on a document that is a single workflow object
\* instead of a list
C24_Witness ==
    /\ Idle
    /\ file = NotListFile(<<WithId(DocDaily, "a")>>)
    /\ workflows = << >>
    /\ jobs = {}

\* C25: the job table never holds two jobs under one id; add_or_update_job
\* called again with the workflow of the call before it leaves the table as
\* that call left it; remove_job on an id that has no job leaves the table
\* unchanged.
C25_SchedulerIdempotent ==
    /\ [](\A j, k \in jobs : j.id = k.id => j = k)
    /\ [][(/\ cur.op = "add_or_update_job"
           /\ cur'.op = "add_or_update_job"
           /\ ncmd' = ncmd + 1
           /\ cur'.arg = cur.arg) => jobs' = jobs]_vars
    /\ [][(/\ cur'.op = "remove_job"
           /\ ncmd' = ncmd + 1
           /\ cur'.id \notin JobIds(jobs)) => jobs' = jobs]_vars

\* an enabled cron workflow was scheduled twice in a row while the table held
\* a job of another id: the table holds the two jobs
C25_Witness ==
    /\ pc = "scheduler"
    /\ cur.op = "add_or_update_job"
    /\ cur.again
    /\ JobIds(jobs) = {"a", "b"}
    /\ \E j \in jobs : j.id = cur.id /\ j.workflow = cur.arg

\* C26: when the store is idle no workflow of a trigger type other than cron
\* has a job; the reconcile of an enabled event or semantic_condition workflow
\* leaves its id without a job, also when the id had a job before the call.
C26_NonCronNeverScheduled ==
    /\ [](Idle => \A i \in DOMAIN workflows :
                      workflows[i].trigger.trigger_type # "cron" =>
                          workflows[i].id \notin JobIds(jobs))
    /\ [][(/\ pc = "sched"
           /\ pc' = "idle"
           /\ cur.op \in {"add", "update"}
           /\ get_workflow(workflows, cur.id).is_enabled
           /\ get_workflow(workflows, cur.id).trigger.trigger_type
                  \in {"event", "semantic_condition"})
              => cur.id \notin JobIds(jobs')]_vars

\* an update has turned an enabled workflow into a semantic_condition workflow
\* with a check_interval_cron: it has no job while the other workflow has one
C26_Witness ==
    /\ Idle
    /\ lastRet.op = "update"
    /\ lastRet.ok
    /\ get_workflow(workflows, lastRet.id).is_enabled
    /\ get_workflow(workflows, lastRet.id).trigger = TrigSemantic(Str_0_8)
    /\ lastRet.id \notin JobIds(jobs)
    /\ jobs # {}

\* the enabled cron workflow w has an expression the job engine refuses
Unschedulable(w) ==
    /\ w.is_enabled
    /\ w.trigger.trigger_type = "cron"
    /\ ~from_crontab(w.trigger.config.cron_expression)

\* C27: when add_workflow / update_workflow reach the scheduler with an enabled
\* cron workflow whose expression cannot be compiled, the call still returns
\* the workflow, the collection keeps the workflow as the call has put it,
\* the file holds the collection as the save has written it, and the job
\* table is left as it was.
C27_FailedRegistrationNoRollback ==
    [][(/\ pc = "sched"
        /\ pc' = "idle"
        /\ cur.op \in {"add", "update"}
        /\ Unschedulable(get_workflow(workflows, cur.id)))
          => /\ lastRet'.op = cur.op
             /\ lastRet'.ok
             /\ lastRet'.id = cur.id
             /\ workflows' = workflows
             /\ cur.id \in Ids(workflows')
             /\ file' = file
             /\ file = SavedFile(workflows)
             /\ jobs' = jobs]_vars

\* add or update has returned a workflow whose expression does not compile:
\* it is in the collection and in the file and has no job
C27_Witness ==
    /\ Idle
    /\ lastRet.op \in {"add", "update"}
    /\ lastRet.ok
    /\ lastRet.id \in Ids(workflows)
    /\ Unschedulable(get_workflow(workflows, lastRet.id))
    /\ file = SavedFile(workflows)
    /\ lastRet.id \notin JobIds(jobs)

\* C28: a process start on a file that holds a persisted workflow whose job
\* registration had failed (an enabled cron workflow with an expression the
\* job engine refuses) leaves a job for exactly the enabled cron workflows of
\* the store.
C28_RestartHeals ==
    [][(/\ pc = "seed"
        /\ pc' = "idle"
        /\ file.state = "ok"
        /\ \E i \in 1..Len(file.docs) :
               /\ ValidWorkflow(file.docs[i])
               /\ Unschedulable(model_validate(file.docs[i])))
          => JobIds(jobs') = EnabledCronIds(workflows')]_vars

\* C29: when the two threads have left their calls, the collection, the file
\* and the job table are what the two calls leave when one runs after the
\* other, in one of the two orders.
C29_Serialized ==
    (\A t \in Threads : pc[t] = "done") =>
        [workflows |-> workflows, file |-> file, jobs |-> jobs]
            \in {SeqCall(SeqCall(ConcStart, CallOf("t1")), CallOf("t2")),
                 SeqCall(SeqCall(ConcStart, CallOf("t2")), CallOf("t1"))}

\* C31: once the scheduler is stopped it stays stopped and no execution
\* starts; shutdown_scheduler called on the stopped scheduler changes nothing;
\* whichever way main left its command loop, it goes through its finally
\* block and has stopped the scheduler when it has ended.
C31_ShutdownFinal ==
    /\ []((pc.main = "exited" /\ cur.op = "exit" /\ cur.how \in ExitPaths)
             => pc.scheduler = "stopped")
    /\ [][pc.scheduler = "stopped" =>
             /\ pc'.scheduler = "stopped"
             /\ inflight' \subseteq inflight]_vars
    /\ [][(ncmd' = ncmd + 1 /\ pc.scheduler = "stopped") =>
             /\ pc' = pc
             /\ jobs' = jobs
             /\ inflight' = inflight]_vars
    /\ [][(pc.main = "loop" /\ pc'.main # "loop") =>
             (pc'.main = "finally" /\ pc'.scheduler = "running")]_vars

\* C32: whenever the store is idle, adding a valid document without an id is
\* accepted under the generated id and adding it with an explicit unused id is
\* accepted under that id; an accepted add puts the workflow last in the
\* collection under an id no workflow had, with that id as its id field; the
\* call returns it under the same id.
C32_AddAssignsId ==
    /\ []((Idle /\ ncmd < MaxCmds) =>
             /\ "u1" \notin Ids(workflows) =>
                    ENABLED (AddWorkflow(DocDaily, "u1") /\ pc' = "save" /\ cur'.id = "u1")
             /\ "a" \notin Ids(workflows) =>
                    ENABLED (AddWorkflow(WithId(DocDaily, "a"), "u1") /\ pc' = "save" /\ cur'.id = "a"))
    /\ [][(CallStep("add") /\ pc' = "save") =>
             /\ cur'.id \notin Ids(workflows)
             /\ cur'.arg.id = cur'.id
             /\ workflows' = Append(workflows, model_validate(cur'.arg))
             /\ workflows'[Len(workflows')].id = cur'.id]_vars
    /\ [][(pc = "sched" /\ pc' = "idle" /\ cur.op = "add") =>
             /\ lastRet' = [op |-> "add", ok |-> TRUE, id |-> cur.id, why |-> ""]
             /\ get_workflow(workflows', cur.id).id = cur.id]_vars

\* an add without id has returned the workflow under the generated id, next to
\* a workflow that was added under an explicit id
C32_Witness ==
    /\ Idle
    /\ lastRet = [op |-> "add", ok |-> TRUE, id |-> "u1", why |-> ""]
    /\ Ids(workflows) = {"a", "u1"}
    /\ file = SavedFile(workflows)

\* the ids of the collection, in its order
IdSeq(wfs) == [i \in 1..Len(wfs) |-> wfs[i].id]

\* the step is a call of list_workflows / get_workflow (or changes nothing)
ReadStep(op) ==
    /\ pc = "idle"
    /\ pc' = "idle"
    /\ inflight' = inflight
    /\ lastRet'.op = op

\* C33: list_workflows returns the collection in its order, and the same
\* sequence as the list_workflows call before it when nothing was called in
\* between; add puts the new id last, update leaves the order of ids as it
\* was, delete takes one id out and keeps the order of the others; a
\* list_workflows or get_workflow call leaves collection, file and job table
\* as they were.
C33_ListStable ==
    /\ [][ReadStep("list") =>
             /\ lastRet'.value = workflows
             /\ IdSeq(lastRet'.value) = IdSeq(workflows)
             /\ lastRet.op = "list" => lastRet'.value = lastRet.value]_vars
    /\ [][(ReadStep("list") \/ ReadStep("get")) =>
             (workflows' = workflows /\ file' = file /\ jobs' = jobs)]_vars
    /\ [][(pc = "idle" /\ pc' = "save") =>
             IdSeq(workflows') =
                 IF cur'.op = "add" THEN Append(IdSeq(workflows), cur'.id)
                 ELSE IF cur'.op = "update" THEN IdSeq(workflows)
                 ELSE SelectSeq(IdSeq(workflows), LAMBDA i : i # cur'.id)]_vars

\* list_workflows has returned three workflows in insertion order, the first
\* of them renamed by an update
C33_Witness ==
    /\ Idle
    /\ lastRet.op = "list"
    /\ IdSeq(lastRet.value) = <<"a", "b", "u1">>
    /\ lastRet.value[1].name = "X"
    /\ lastRet.value = workflows

\* the last record of docs that passes validation and carries id
LastValid(docs, id) ==
    docs[CHOOSE i \in 1..Len(docs) :
            /\ ValidWorkflow(docs[i]) /\ docs[i].id = id
            /\ \A k \in (i + 1)..Len(docs) : ~(ValidWorkflow(docs[k]) /\ docs[k].id = id)]

\* C34: no two workflows of the collection have the same id; after the load
\* the workflow under an id is the last valid record of that id in the file;
\* a mutation that starts leaves the workflow of its id, if any, carrying
\* that id.
C34_KeysAreIds ==
    /\ [](\A i, k \in 1..Len(workflows) : workflows[i].id = workflows[k].id => i = k)
    /\ []((Idle /\ lastRet.op = "none" /\ file.state = "ok") =>
             \A id \in Ids(workflows) :
                 get_workflow(workflows, id) = model_validate(LastValid(file.docs, id)))
    /\ [][(pc = "idle" /\ pc' = "save") =>
             /\ cur'.op \in {"add", "update"} =>
                    (cur'.id \in Ids(workflows') /\ get_workflow(workflows', cur'.id).id = cur'.id)
             /\ cur'.op = "delete" => cur'.id \notin Ids(workflows')
             /\ Len(workflows') = Cardinality(Ids(workflows'))]_vars

\* the store was loaded from the file with two records of id "a" and holds
\* the later one, then a workflow was added and "a" was updated
C34_Witness ==
    /\ Idle
    /\ ncmd = 2
    /\ lastRet.ok
    /\ IdSeq(workflows) = <<"a", "b", "u1">>
    /\ workflows[1].target_connector = "TargetConnectorType.GMAIL"
    /\ workflows[1].name = "X"

\* documents that Workflow.model_validate refuses: a connector outside the
\* enum, an action without action_type, a cron expression of four fields, a
\* trigger without config
InvalidAddDocs ==
    {[DocDaily EXCEPT !.target_connector = c] : c \in {"mail", "discord", "Browser", ""}}
        \cup {[DocDaily EXCEPT !.action = [params |-> [url |-> Url]]],
              [DocDaily EXCEPT !.trigger = TrigCron(Str_0_8_4)],
              [DocDaily EXCEPT !.trigger = TrigNoConfig],
              DocInvalid}

\* C35: whenever the store is idle, add_workflow on a document that fails
\* validation, with or without an id, can only return None and leave the
\* collection, the file and the job table as they are; and every add that is
\* refused as invalid leaves them as they are.
C35_InvalidAddNoEffect ==
    /\ []((Idle /\ ncmd < MaxCmds) =>
             \A d \in InvalidAddDocs :
                 \A x \in {WithId(d, "a")} \cup (IF "u1" \in Ids(workflows) THEN {} ELSE {d}) :
                     /\ ENABLED (/\ AddWorkflow(x, "u1")
                                 /\ FailsUnchanged
                                 /\ lastRet'.op = "add"
                                 /\ lastRet'.why = "invalid")
                     /\ ~ENABLED (AddWorkflow(x, "u1") /\ ~FailsUnchanged))
    /\ [][(CallStep("add") /\ pc' = "idle" /\ lastRet'.why = "invalid") => FailsUnchanged]_vars

\* an add without id was refused as invalid while the store holds two
\* workflows, one of them scheduled, and the file holds the collection
C35_Witness ==
    /\ Idle
    /\ lastRet = [op |-> "add", ok |-> FALSE, id |-> "u1", why |-> "invalid"]
    /\ Ids(workflows) = {"a", "b"}
    /\ JobIds(jobs) = {"a"}
    /\ file.state = "ok"

\* the collection holds what the mutation c has done to it
HoldsMutation(wfs, c) ==
    IF c.op = "delete" THEN c.id \notin Ids(wfs) ELSE c.id \in Ids(wfs)

\* C36: a write of the file that fails leaves the collection as the mutation
\* has made it; every write that completes, also one that follows a failed
\* write, leaves the file holding the whole collection, and the collection is
\* what a load of that file gives.
C36_FailedWriteKeptAndRepaired ==
    /\ [][(pc \in {"save", "writing"} /\ wrote' = "failed") =>
             /\ workflows' = workflows
             /\ HoldsMutation(workflows', cur)]_vars
    /\ [][(pc = "writing" /\ wrote' = "ok") =>
             /\ workflows' = workflows
             /\ HoldsMutation(workflows', cur)
             /\ file' = SavedFile(workflows')
             /\ Load(file') = workflows']_vars
    /\ []((Idle /\ wrote = "ok" /\ lastError = "save") => file = SavedFile(workflows))

\* the write of an add failed, the workflow stayed in the collection, and the
\* write of a later mutation has put the whole collection into the file
C36_Witness ==
    /\ Idle
    /\ lastError = "save"
    /\ wrote = "ok"
    /\ lastRet.ok
    /\ lastRet.op = "update"
    /\ Ids(workflows) = {"a", "b", "u1"}
    /\ file = SavedFile(workflows)

\* the file holds a JSON list of records that all pass validation
AllRecordsValid(f) ==
    /\ f.state = "ok"
    /\ \A i \in 1..Len(f.docs) : ValidWorkflow(f.docs[i])

\* C37: the load leaves the file as it is, and so does every step that is not
\* part of a mutation's write; a write that completes leaves a file that is
\* the dump of the collection, in which every record is valid: a record the
\* load had skipped, or the content of a file that was no JSON document, is
\* no longer there.
C37_SkippedDataGoneAfterRewrite ==
    /\ [][(pc \in {"boot", "seed"}) => (file' = file)]_vars
    /\ [][file' # file => pc \in {"save", "writing"}]_vars
    /\ [][(pc = "writing" /\ pc' = "sched") =>
             /\ file' = SavedFile(workflows)
             /\ AllRecordsValid(file')
             /\ {file'.docs[i].id : i \in 1..Len(file'.docs)} = Ids(workflows)]_vars
    /\ []((Idle /\ lastRet.op = "none") =>
             (file \in {SkippedFile, CorruptFile} => ~AllRecordsValid(file)))

\* the store was loaded from the file with the skipped record; a mutation has
\* rewritten the file, which now holds the loaded workflow and no invalid record
C37_Witness ==
    /\ Idle
    /\ wrote = "ok"
    /\ \E i \in 1..Len(workflows) : workflows[i].name = "Kept"
    /\ AllRecordsValid(file)
    /\ file = SavedFile(workflows)
    /\ "c" \notin {file.docs[i].id : i \in 1..Len(file.docs)}

\* trigger types outside the TriggerType enum, and config maps of any content
OtherTriggerTypes == {"webhook", "Cron", "manual", ""}

OtherConfigs ==
    {EmptyMap,
     [cron_expression |-> Str_0_8],
     [cron_expression |-> Str_0_8_4],
     [event_source |-> PyInt]}

KnownTriggerTypes == {"cron", "event", "semantic_condition"}

\* C38: whenever the store is idle, a document whose trigger has a type
\* outside cron / event / semantic_condition is accepted by add_workflow with
\* any config map and stored with that trigger; and no workflow with such a
\* trigger has a job when the store is idle.
C38_UnknownTriggerTypeAccepted ==
    /\ []((Idle /\ ncmd < MaxCmds /\ "a" \notin Ids(workflows)) =>
             \A ty \in OtherTriggerTypes, cfg \in OtherConfigs :
                 LET t == [trigger_type |-> ty, config |-> cfg]
                 IN  ENABLED (/\ AddWorkflow(WithId([DocDaily EXCEPT !.trigger = t], "a"), "u1")
                              /\ pc' = "save"
                              /\ get_workflow(workflows', "a").trigger = t))
    /\ [](Idle => \A i \in 1..Len(workflows) :
                      workflows[i].trigger.trigger_type \notin KnownTriggerTypes =>
                          workflows[i].id \notin JobIds(jobs))
    /\ [][(pc = "sched" /\ pc' = "idle" /\ cur.op \in {"add", "update"}
             /\ get_workflow(workflows, cur.id).trigger.trigger_type \notin KnownTriggerTypes) =>
               (lastRet'.ok /\ cur.id \notin JobIds(jobs'))]_vars

\* an enabled workflow with a webhook trigger was added and is stored and
\* saved; it has no job while another workflow has one
C38_Witness ==
    /\ Idle
    /\ lastRet.op = "add"
    /\ lastRet.ok
    /\ get_workflow(workflows, lastRet.id).trigger = TrigWebhook
    /\ get_workflow(workflows, lastRet.id).is_enabled
    /\ lastRet.id \notin JobIds(jobs)
    /\ jobs # {}
    /\ file = SavedFile(workflows)

\* C39: every add that the router makes for a natural-language command (the
\* adds of a document without id: an agent_command document carries its id)
\* is accepted, and the workflow it has stored has a job once the call returns.
C39_RouterPayloadAccepted ==
    /\ [][(CallStep("add") /\ StepId \in UuidPool) => pc' = "save"]_vars
    /\ []((Idle /\ lastRet.op = "add" /\ lastRet.id \in UuidPool) =>
             (lastRet.ok /\ lastRet.id \in Ids(workflows) /\ lastRet.id \in JobIds(jobs)))

====
